---- MODULE Spec2Model ----
(***************************************************************************)
(* A model of APresentation: the slide's z-ordered object layers, the      *)
(* markup tokenizer (Text::parse), the placeholder padding (Text::pad_num) *)
(* and the two-pass text layout (Text::render).                            *)
(*                                                                         *)
(* Conventions.  A string is a sequence of one-character strings.  All     *)
(* lengths are integers: the font-metrics service is the fixed-advance     *)
(* stub (every character of a run of size s is s units wide), sizes are    *)
(* multiples of 10 so that the italic correction size*0.10 is an integer,  *)
(* and the draw pass keeps its positions doubled (x2 = 2*x) so that the    *)
(* alignment multipliers 0, 0.5 and 1 become 0, 1 and 2.                   *)
(***************************************************************************)
EXTENDS Integers, Sequences, FiniteSets, TLC

VARIABLES
    objects,    \* Slide.objects: the IndexMap, a sequence of [z, objs] entries
    inserted,   \* the z-index of every add / add_boxed call so far, in call order
    rendered,   \* the objects visited by the last Slide::render, in visit order
    line,       \* Text::parse: the line being tokenized
    vec,        \* Text::parse: the run list (vec) between two steps
    stage,      \* Text::parse: the number of steps done
    status,     \* Text::parse: "run", then "ok" or "err" (the Result)
    src,        \* Text::new: the lines handed in (text: Vec<TextStr>)
    view,       \* Text::render: what the frame evaluates (max_width, pos, ...)
    text,       \* Text.text: the token list Text::new built
    pc,         \* Text: "new", "err", "ready", "measure", "draw", "done", or how
                \* the frame was aborted ("out_of_bounds", "panic", "exhausted")
    idx,        \* Text::render: the position of the next token of the running pass
    line_widths,      \* Text::render: line_widths
    line_heights,     \* Text::render: line_heights
    curr_width,       \* Text::render: curr_width
    curr_max_height,  \* Text::render: curr_max_height
    height,           \* Text::render: height
    starting_pos,     \* Text::render: starting_pos, doubled
    current_pos,      \* Text::render: current_pos, doubled
    current_line,     \* Text::render: current_line
    draws,      \* the calls of Font::draw of the frame, in call order
    breaks1,    \* the measurement pass: for every line it started, in order,
                \* the position of the token the line starts before
    breaks2,    \* the same for the draw pass
    padIn,      \* Text::pad_num: the arguments of the call
    padOut,     \* Text::pad_num: the outcome of the call
    shape,      \* a ColoredRect, RoundedRect or Image: its type and the values
                \* its base properties evaluate to in the frame
    drawn,      \* the rectangle the last render of the shape drew, doubled
    raw,        \* an object of the document: its type, pos, size, col and
                \* align strings
    loaded,     \* what Document::parse_base_properties returned for it
    evald,      \* the values pos and size evaluate to in a frame
    slides,     \* Presentation.slides
    current_slide,  \* Presentation.current_slide
    shown,      \* the slide the last Presentation::render rendered
    pres_pc,    \* Presentation: "ok", or "panic" once a call panicked
    call,       \* the last call on the presentation
    from_slide,     \* current_slide when that call was made
    renderable_json,  \* an entry of the array "content" of a slide
    fonts_set,  \* whether the list of fonts (FONTS) is set
    content,    \* what SlideData::from_json_data made of the entry
    clock,      \* the monotonic clock, in ticks
    time,       \* AppData.time
    last_frame,     \* AppData.last_frame
    last_press,     \* AppData.last_press
    switched_at,    \* the clock when the current slide was switched to
    frame_time,     \* the time the last frame handed to Presentation::render,
                    \* the clock then and switched_at then
    events,     \* the number of calls of Application::input
    last_event, \* the button event of the last call and what it returned
    calls,      \* how often Application::input called previous_slide and
                \* next_slide
    releases,   \* the Release events of the two key groups so far
    new_args,   \* Text::new: the lines, the base font and the text alignment
    new_result  \* Text::new: "ok", "err" or "panic", "" before the call

slideVars == <<objects, inserted, rendered>>

parseVars == <<line, vec, stage, status>>

measureVars == <<line_widths, line_heights, curr_width, curr_max_height, height>>

drawVars == <<starting_pos, current_pos, current_line, draws>>

textVars == <<src, view, text, pc, idx, measureVars, drawVars, breaks1, breaks2>>

padVars == <<padIn, padOut>>

boxVars == <<shape, drawn>>

loadVars == <<raw, loaded, evald>>

presVars == <<slides, current_slide, shown, pres_pc, call, from_slide>>

contentVars == <<renderable_json, fonts_set, content>>

appVars ==
    <<clock, time, last_frame, last_press, switched_at, frame_time, events,
      last_event, calls, releases>>

newVars == <<new_args, new_result>>

extVars == <<boxVars, loadVars, presVars, contentVars, appVars, newVars>>

coreVars == <<slideVars, parseVars, textVars, padVars>>

exceptBox == <<coreVars, loadVars, presVars, contentVars, appVars, newVars>>

exceptLoad == <<coreVars, boxVars, presVars, contentVars, appVars, newVars>>

exceptPres == <<coreVars, boxVars, loadVars, contentVars, appVars, newVars>>

exceptContent == <<coreVars, boxVars, loadVars, presVars, appVars, newVars>>

exceptApp == <<coreVars, boxVars, loadVars, contentVars, newVars>>

exceptNew == <<coreVars, boxVars, loadVars, presVars, contentVars, appVars>>

vars == <<slideVars, parseVars, textVars, padVars, extVars>>

(***************************************************************************)
(* Slide                                                                   *)
(***************************************************************************)

\* The z-indices the model inserts at (u8 values, both ends of the range).
ZIndices == {0, 1, 3, 5, 255}

\* The number of add / add_boxed calls of one run of the model.
MaxAdds == 4

\* DefaultingOption<u8>: Some(v) or None.
Some(v) == [some |-> TRUE, v |-> v]
None == [some |-> FALSE, v |-> 0]
ZOptions == {Some(z) : z \in ZIndices} \cup {None}

\* DefaultingOption::get / consume: the wrapped value, or the default.
DefaultingGet(opt, default) == IF opt.some THEN opt.v ELSE default

ContainsKey(map, z) == \E k \in 1..Len(map) : map[k].z = z

\* IndexMap::insert of a key the map does not hold: the entry goes last.
IndexMapInsert(map, z, objs) == Append(map, [z |-> z, objs |-> objs])

RemoveAt(s, k) == SubSeq(s, 1, k - 1) \o SubSeq(s, k + 1, Len(s))

RECURSIVE SortByKey(_)
\* IndexMap::sort_by(|a,_,b,_| a.cmp(b)): the entries in ascending key order
\* (keys are unique, so the order is determined).
SortByKey(map) ==
    IF map = <<>> THEN <<>>
    ELSE LET k == CHOOSE k \in 1..Len(map) :
                      \A j \in 1..Len(map) : map[k].z <= map[j].z
         IN  <<map[k]>> \o SortByKey(RemoveAt(map, k))

\* The body of Slide::add with the sort after the insert left out.
SlideAddNoSort(map, obj, zopt) ==
    LET z == DefaultingGet(zopt, 0) IN
    IF ContainsKey(map, z)
    THEN [k \in 1..Len(map) |->
            IF map[k].z = z THEN [map[k] EXCEPT !.objs = Append(@, obj)]
            ELSE map[k]]
    ELSE IndexMapInsert(map, z, <<obj>>)

\* Slide::add: push onto the layer when the key exists, else insert a new
\* layer and re-sort the map by key.
SlideAdd(map, obj, zopt) ==
    LET z == DefaultingGet(zopt, 0) IN
    IF ContainsKey(map, z)
    THEN [k \in 1..Len(map) |->
            IF map[k].z = z THEN [map[k] EXCEPT !.objs = Append(@, obj)]
            ELSE map[k]]
    ELSE SortByKey(IndexMapInsert(map, z, <<obj>>))

\* Slide::add_boxed: the same steps for an already boxed object.
SlideAddBoxed(map, obj, zopt) ==
    LET z == DefaultingGet(zopt, 0) IN
    IF ContainsKey(map, z)
    THEN [k \in 1..Len(map) |->
            IF map[k].z = z THEN [map[k] EXCEPT !.objs = Append(@, obj)]
            ELSE map[k]]
    ELSE SortByKey(IndexMapInsert(map, z, <<obj>>))

RECURSIVE VisitLayers(_)
\* The loop of Slide::render: every layer in map order, every object of a
\* layer in push order.
VisitLayers(map) ==
    IF map = <<>> THEN <<>>
    ELSE [k \in 1..Len(map[1].objs) |-> [z |-> map[1].z, id |-> map[1].objs[k]]]
         \o VisitLayers(Tail(map))

Background == [z |-> -1, id |-> 0]

\* Slide::render: the background, then the layers.
SlideRender(map) == <<Background>> \o VisitLayers(map)

\* Slide::new: no layers.
SlideInit ==
    /\ objects = <<>>
    /\ inserted = <<>>
    /\ rendered = <<>>

Add ==
    /\ Len(inserted) < MaxAdds
    /\ \E zopt \in ZOptions :
         /\ objects' = SlideAdd(objects, Len(inserted) + 1, zopt)
         /\ inserted' = Append(inserted, DefaultingGet(zopt, 0))
    /\ UNCHANGED <<rendered, parseVars, textVars, padVars, extVars>>

AddBoxed ==
    /\ Len(inserted) < MaxAdds
    /\ \E zopt \in ZOptions :
         /\ objects' = SlideAddBoxed(objects, Len(inserted) + 1, zopt)
         /\ inserted' = Append(inserted, DefaultingGet(zopt, 0))
    /\ UNCHANGED <<rendered, parseVars, textVars, padVars, extVars>>

Render ==
    /\ rendered' = SlideRender(objects)
    /\ UNCHANGED <<objects, inserted, parseVars, textVars, padVars, extVars>>

\* The z-indices of the objects of the last render, background excluded.
RenderedZ == [k \in 1..(Len(rendered) - 1) |-> rendered[k + 1].z]

\* C1: Slide::render visits the objects in ascending z-index order whatever
\* the insertion order was: the layers it walks are strictly ascending, and
\* an object rendered later never has a smaller z-index than one rendered
\* earlier.
C1_RenderAscending ==
    /\ \A a, b \in 1..Len(objects) : a < b => objects[a].z < objects[b].z
    /\ rendered # <<>> =>
         \A a, b \in 1..Len(RenderedZ) : a < b => RenderedZ[a] <= RenderedZ[b]

\* Objects inserted at z = 5, 1, 3 have been rendered in the order 1, 3, 5.
C1_Witness ==
    /\ inserted = <<5, 1, 3>>
    /\ RenderedZ = <<1, 3, 5>>

(***************************************************************************)
(* Strings and the regular expressions of the tokenizer                    *)
(***************************************************************************)

MinOf(S) == CHOOSE x \in S : \A y \in S : x <= y

\* The character at position p of t (1-based), "" outside the string.
CharAt(t, p) == IF p >= 1 /\ p <= Len(t) THEN t[p] ELSE ""

\* The slice t[a..b) in 1-based positions.
Slice(t, a, b) == SubSeq(t, a, b - 1)

\* The backquote character (the one character a TLA+ string cannot hold).
Backquote == "BQ"

Digits == {"0", "1", "2", "3", "4", "5", "6", "7", "8", "9"}

DigitVal(c) ==
    CASE c = "0" -> 0 [] c = "1" -> 1 [] c = "2" -> 2 [] c = "3" -> 3
      [] c = "4" -> 4 [] c = "5" -> 5 [] c = "6" -> 6 [] c = "7" -> 7
      [] c = "8" -> 8 [] c = "9" -> 9

RECURSIVE DecimalValue(_)
\* The value of a string of digits that is at most i32::MAX.
DecimalValue(t) ==
    IF t = <<>> THEN 0
    ELSE 10 * DecimalValue(SubSeq(t, 1, Len(t) - 1)) + DigitVal(t[Len(t)])

RECURSIVE StripZeros(_)
StripZeros(t) == IF t # <<>> /\ t[1] = "0" THEN StripZeros(Tail(t)) ELSE t

\* The digits of i32::MAX = 2147483647.
I32MaxDigits == <<"2", "1", "4", "7", "4", "8", "3", "6", "4", "7">>

RECURSIVE DigitsLeq(_, _)
\* a <= b for two digit strings of the same length.
DigitsLeq(a, b) ==
    IF a = <<>> THEN TRUE
    ELSE IF a[1] # b[1] THEN DigitVal(a[1]) < DigitVal(b[1])
    ELSE DigitsLeq(Tail(a), Tail(b))

\* str::parse::<i32> of a string of digits: Err when the value exceeds
\* i32::MAX.
ParseI32(t) ==
    LET d == StripZeros(t) IN
    IF Len(d) < 10 \/ (Len(d) = 10 /\ DigitsLeq(d, I32MaxDigits))
    THEN [ok |-> TRUE, val |-> DecimalValue(d)]
    ELSE [ok |-> FALSE, val |-> 0]

IsWhite(c) == c \in {" ", "\t"}

RECURSIVE TrimLeft(_)
TrimLeft(t) == IF t # <<>> /\ IsWhite(t[1]) THEN TrimLeft(Tail(t)) ELSE t

RECURSIVE TrimRight(_)
TrimRight(t) ==
    IF t # <<>> /\ IsWhite(t[Len(t)]) THEN TrimRight(SubSeq(t, 1, Len(t) - 1))
    ELSE t

NoMatch == [ok |-> FALSE, s |-> 0, e |-> 0, cs |-> 0, ce |-> 0, g |-> <<>>]

Match(s, e, cs, ce, g) == [ok |-> TRUE, s |-> s, e |-> e, cs |-> cs, ce |-> ce, g |-> g]

\* The least k >= 1 such that the two characters after t[c..c+k) are both d:
\* the lazy group (.+?) followed by the literal dd.  0 when there is none.
LazyUntilDouble(t, c, d) ==
    LET ks == {k \in 1..Len(t) : CharAt(t, c + k) = d /\ CharAt(t, c + k + 1) = d}
    IN  IF ks = {} THEN 0 ELSE MinOf(ks)

\* BOLD_REGEX \*\*(?<content>.+?)\*\* anchored at s.
BoldAt(t, s) ==
    LET k == LazyUntilDouble(t, s + 2, "*") IN
    IF CharAt(t, s) = "*" /\ CharAt(t, s + 1) = "*" /\ k > 0
    THEN Match(s, s + 4 + k, s + 2, s + 2 + k, <<>>)
    ELSE NoMatch

\* ITALIC_REGEX \*(?<content>.+?)\* anchored at s.
ItalicAt(t, s) ==
    LET ks == {k \in 1..Len(t) : CharAt(t, s + 1 + k) = "*"} IN
    IF CharAt(t, s) = "*" /\ ks # {}
    THEN Match(s, s + 2 + MinOf(ks), s + 1, s + 1 + MinOf(ks), <<>>)
    ELSE NoMatch

\* SIZE_REGEX ~(?<size>[^~]+?)~(?<content>.+?)~~ anchored at s: the size group
\* cannot hold a ~, so it ends at the first ~ after s.
SizeAt(t, s) ==
    LET js == {j \in 1..Len(t) : CharAt(t, s + j) = "~"}
        j  == IF js = {} THEN 0 ELSE MinOf(js) - 1
        c  == s + j + 2
        k  == LazyUntilDouble(t, c, "~")
    IN  IF CharAt(t, s) = "~" /\ j >= 1 /\ k > 0
        THEN Match(s, c + k + 2, c, c + k, <<Slice(t, s + 1, s + 1 + j)>>)
        ELSE NoMatch

\* FONT_REGEX _(?<font>.+?)_(?<content>.+?)__ anchored at s: the shortest font
\* group for which the rest matches, then the shortest content.
FontAt(t, s) ==
    LET js == {j \in 1..Len(t) :
                 /\ CharAt(t, s + 1 + j) = "_"
                 /\ LazyUntilDouble(t, s + 2 + j, "_") > 0}
        j  == IF js = {} THEN 0 ELSE MinOf(js)
        c  == s + 2 + j
        k  == LazyUntilDouble(t, c, "_")
    IN  IF CharAt(t, s) = "_" /\ j >= 1
        THEN Match(s, c + k + 2, c, c + k, <<Slice(t, s + 1, s + 1 + j)>>)
        ELSE NoMatch

\* The end (exclusive) of the longest run of characters outside stop from p.
RunEnd(t, p, stop) ==
    LET es == {q \in p..Len(t) : t[q] \in stop} IN
    IF es = {} THEN Len(t) + 1 ELSE MinOf(es)

\* What optional whitespace followed by a group captures of the segment t[a..b): the segment without
\* its leading whitespace, or its last character when it is all whitespace.
ColorGroup(t, a, b) ==
    LET seg == Slice(t, a, b) IN
    IF TrimLeft(seg) = <<>> THEN <<seg[Len(seg)]>> ELSE TrimLeft(seg)

\* COLOR_REGEX anchored at s: a backquote, the groups r, g and b separated
\* by semicolons (g and b after optional whitespace), an optional fourth
\* group a, a backquote, the lazy content and two backquotes.  No group holds
\* a semicolon or a backquote.  g[4] is <<>> when there is no alpha.
ColorAt(t, s) ==
    LET stop == {";", Backquote}
        r1 == s + 1
        r2 == RunEnd(t, r1, stop)
        g1 == r2 + 1
        g2 == RunEnd(t, g1, stop)
        b1 == g2 + 1
        b2 == RunEnd(t, b1, stop)
        a1 == b2 + 1
        a2 == RunEnd(t, a1, stop)
        hasA == CharAt(t, b2) = ";"
        q  == IF hasA THEN a2 ELSE b2
        c  == q + 1
        k  == LazyUntilDouble(t, c, Backquote)
    IN  IF /\ CharAt(t, s) = Backquote
           /\ r2 > r1 /\ CharAt(t, r2) = ";"
           /\ g2 > g1 /\ CharAt(t, g2) = ";"
           /\ b2 > b1
           /\ (hasA => a2 > a1)
           /\ CharAt(t, q) = Backquote
           /\ k > 0
        THEN Match(s, c + k + 2, c, c + k,
                   <<Slice(t, r1, r2), ColorGroup(t, g1, g2), ColorGroup(t, b1, b2),
                     IF hasA THEN ColorGroup(t, a1, a2) ELSE <<>> >>)
        ELSE NoMatch

\* The markup passes with the italic pass before the bold pass.
RegexesItalicFirst == <<"size", "color", "font", "italic", "bold">>

\* REGEXES: the markup passes in the order Text::parse applies them.
REGEXES == <<"size", "color", "font", "bold", "italic">>

MatchAt(re, t, s) ==
    CASE re = "size" -> SizeAt(t, s)
      [] re = "color" -> ColorAt(t, s)
      [] re = "font" -> FontAt(t, s)
      [] re = "bold" -> BoldAt(t, s)
      [] re = "italic" -> ItalicAt(t, s)

\* Regex::captures_iter: the leftmost match from position from on, then the
\* leftmost match after its end, and so on.
FirstMatch(re, t, from) ==
    LET ss == {s \in from..Len(t) : MatchAt(re, t, s).ok} IN
    IF ss = {} THEN NoMatch ELSE MatchAt(re, t, MinOf(ss))

RECURSIVE CapturesIter(_, _, _)
CapturesIter(re, t, from) ==
    LET m == FirstMatch(re, t, from) IN
    IF m.ok THEN <<m>> \o CapturesIter(re, t, m.e) ELSE <<>>

(***************************************************************************)
(* Text::parse: the tokenizer                                              *)
(***************************************************************************)

\* TextPart, the tagged variant.  size is the value the size expression
\* evaluates to, color the four component strings, font the registry key.
TText(str, bold, italic, color, size, font) ==
    [kind |-> "Text", text |-> str, bold |-> bold, italic |-> italic,
     color |-> color, size |-> size, font |-> font]

TTab == [kind |-> "Tab"]

TSpace(size, font) == [kind |-> "Space", size |-> size, font |-> font]

TNewLine == [kind |-> "NewLine"]

TPlaceholder(index, pad_char, pad_amount, bold, italic, color, size, font) ==
    [kind |-> "Placeholder", index |-> index, pad_char |-> pad_char,
     pad_amount |-> pad_amount, bold |-> bold, italic |-> italic,
     color |-> color, size |-> size, font |-> font]

\* The font registry: the logical font names that are loaded.
FontList == {<<"f">>, <<"g">>}

\* util::res_dependent_expr for the expressions the model writes: a decimal
\* integer literal, surrounding whitespace ignored, binds to its value; any
\* other string of the model's alphabets (letters other than w, h, t, markup
\* characters, the empty string) is rejected by the expression parser and by
\* the Lua fallback.
ResDependentExpr(t) ==
    LET u == TrimRight(TrimLeft(t)) IN
    IF u # <<>> /\ Len(u) <= 9 /\ \A p \in 1..Len(u) : u[p] \in Digits
    THEN [ok |-> TRUE, val |-> DecimalValue(u)]
    ELSE [ok |-> FALSE, val |-> 0]

\* TextPart::set_size
SetSize(part, str) ==
    LET e == ResDependentExpr(str) IN
    [ok |-> e.ok, part |-> [part EXCEPT !.size = e.val]]

\* TextPart::set_color on the string "r;g;b;a": util::parse_expression_list
\* splits it at the semicolons and parses every component.
SetColor(part, rgba) ==
    [ok |-> \A c \in 1..4 : ResDependentExpr(rgba[c]).ok,
     part |-> [part EXCEPT !.color = rgba]]

\* regex_fns[i]: what pass re does to the run holding the matched content.
RegexFn(re, part, m) ==
    CASE re = "size" -> SetSize(part, m.g[1])
      [] re = "color" ->
           LET alpha == part.color[4]
               a == IF m.g[4] = <<>> THEN alpha ELSE m.g[4]
           IN  SetColor(part, <<m.g[1], m.g[2], m.g[3], a>>)
      [] re = "font" ->
           [ok |-> m.g[1] \in FontList, part |-> [part EXCEPT !.font = m.g[1]]]
      [] re = "bold" -> [ok |-> TRUE, part |-> [part EXCEPT !.bold = TRUE]]
      [] re = "italic" -> [ok |-> TRUE, part |-> [part EXCEPT !.italic = TRUE]]

Failed == [ok |-> FALSE, vec |-> <<>>]

Done(v) == [ok |-> TRUE, vec |-> v]

RECURSIVE SplitAtMatchesLeaky(_, _, _, _)
\* SplitAtMatches with the text after a match taken from the modified run
\* instead of the run that was split.
SplitAtMatchesLeaky(re, run, ms, last) ==
    IF ms = <<>>
    THEN Done(<<[run EXCEPT !.text = Slice(run.text, last, Len(run.text) + 1)]>>)
    ELSE LET m == ms[1]
             prefix == [run EXCEPT !.text = Slice(run.text, last, m.s)]
             modified == RegexFn(re, [run EXCEPT !.text = Slice(run.text, m.cs, m.ce)], m)
             rest == SplitAtMatchesLeaky(re, [modified.part EXCEPT !.text = run.text],
                                         Tail(ms), m.e)
         IN  IF ~modified.ok \/ ~rest.ok THEN Failed
             ELSE Done(<<prefix, modified.part>> \o rest.vec)

RECURSIVE SplitAtMatches(_, _, _, _)
\* The loop over regex.captures_iter(text) of one Text run: for every match
\* the text between the previous match and this one in the run's own style,
\* then the content with the pass's style change; after the last match the
\* rest of the text in the run's own style.
SplitAtMatches(re, run, ms, last) ==
    IF ms = <<>>
    THEN Done(<<[run EXCEPT !.text = Slice(run.text, last, Len(run.text) + 1)]>>)
    ELSE LET m == ms[1]
             prefix == [run EXCEPT !.text = Slice(run.text, last, m.s)]
             modified == RegexFn(re, [run EXCEPT !.text = Slice(run.text, m.cs, m.ce)], m)
             rest == SplitAtMatches(re, run, Tail(ms), m.e)
         IN  IF ~modified.ok \/ ~rest.ok THEN Failed
             ELSE Done(<<prefix, modified.part>> \o rest.vec)

RECURSIVE MarkupPass(_, _)
\* One iteration of the loop over REGEXES: every Text run of v re-split.
MarkupPass(re, v) ==
    IF v = <<>> THEN Done(<<>>)
    ELSE LET head == IF v[1].kind = "Text"
                     THEN SplitAtMatches(re, v[1], CapturesIter(re, v[1].text, 1), 1)
                     ELSE Done(<<v[1]>>)
             rest == MarkupPass(re, Tail(v))
         IN  IF ~head.ok \/ ~rest.ok THEN Failed ELSE Done(head.vec \o rest.vec)

\* PLACEHOLDER_REGEX anchored at s: an opening brace, optionally a pad
\* character other than a colon, a direction < or > and the digits of the
\* amount, then a brace, the name (no closing brace in it) and two closing
\* braces.
PlaceholderAt(t, s) ==
    LET d1 == s + 3
        d2 == RunEnd(t, d1, {c \in {t[q] : q \in 1..Len(t)} : c \notin Digits})
        n1 == d2 + 1
        n2 == RunEnd(t, n1, {"}"})
        padded == /\ CharAt(t, s + 1) \notin {"", ":"}
                  /\ CharAt(t, s + 2) \in {"<", ">"}
                  /\ d2 > d1
                  /\ CharAt(t, d2) = "{"
                  /\ CharAt(t, n2) = "}" /\ CharAt(t, n2 + 1) = "}"
        p1 == s + 2
        p2 == RunEnd(t, p1, {"}"})
        plain == /\ CharAt(t, s + 1) = "{"
                 /\ CharAt(t, p2) = "}" /\ CharAt(t, p2 + 1) = "}"
    IN  IF CharAt(t, s) = "{" /\ padded
        THEN [ok |-> TRUE, s |-> s, e |-> n2 + 2, name |-> Slice(t, n1, n2),
              padded |-> TRUE, padchar |-> t[s + 1], paddir |-> t[s + 2],
              padamount |-> Slice(t, d1, d2)]
        ELSE IF CharAt(t, s) = "{" /\ plain
        THEN [ok |-> TRUE, s |-> s, e |-> p2 + 2, name |-> Slice(t, p1, p2),
              padded |-> FALSE, padchar |-> "", paddir |-> "", padamount |-> <<>>]
        ELSE [ok |-> FALSE, s |-> 0, e |-> 0, name |-> <<>>,
              padded |-> FALSE, padchar |-> "", paddir |-> "", padamount |-> <<>>]

\* PLACEHOLDER_REGEX.captures_iter(text).next()
FirstPlaceholder(t) ==
    LET ss == {s \in 1..Len(t) : PlaceholderAt(t, s).ok} IN
    IF ss = {} THEN PlaceholderAt(t, 0) ELSE PlaceholderAt(t, MinOf(ss))

\* The cast "as i8" of an i32.
AsI8(n) == ((n + 128) % 256) - 128

\* The Placeholder token built from a match: the pad character (a space by
\* default) and the amount cast to i8.  The captured direction is read into
\* a local the token never receives.
PlaceholderToken(m, padamount, run) ==
    LET padchar == IF m.padded THEN m.padchar ELSE " "
        paddir == IF m.padded THEN m.paddir ELSE "<"
    IN  TPlaceholder(m.name, padchar, AsI8(padamount), run.bold, run.italic,
                     run.color, run.size, run.font)

RECURSIVE PlaceholderLoop(_, _)
\* The while loop over leftover_text of one Text run.
PlaceholderLoop(run, leftover) ==
    LET m == FirstPlaceholder(leftover) IN
    IF m.ok
    THEN LET padamount == IF m.padded THEN ParseI32(m.padamount)
                          ELSE [ok |-> TRUE, val |-> 0]
             before == Slice(leftover, 1, m.s)
             after == Slice(leftover, m.e, Len(leftover) + 1)
             rest == PlaceholderLoop(run, after)
         IN  IF ~padamount.ok \/ ~rest.ok THEN Failed
             ELSE Done(<<[run EXCEPT !.text = before],
                         PlaceholderToken(m, padamount.val, run)>> \o rest.vec)
    ELSE IF Len(leftover) > 0 THEN Done(<<[run EXCEPT !.text = leftover]>>)
    ELSE Done(<<>>)

RECURSIVE ExtractPlaceholders(_)
\* "Find any placeholders and split them from the rest of the text."
ExtractPlaceholders(v) ==
    IF v = <<>> THEN Done(<<>>)
    ELSE LET head == IF v[1].kind = "Text"
                     THEN PlaceholderLoop(v[1], v[1].text)
                     ELSE Done(<<v[1]>>)
             rest == ExtractPlaceholders(Tail(v))
         IN  IF ~head.ok \/ ~rest.ok THEN Failed ELSE Done(head.vec \o rest.vec)

\* str::find('\t'): the position of the first tab, 0 when there is none.
FindTab(t) ==
    LET ps == {p \in 1..Len(t) : t[p] = "\t"} IN
    IF ps = {} THEN 0 ELSE MinOf(ps)

RECURSIVE TabLoop(_)
\* The while loop of "Add tabs" over new_text_parts: the last part is replaced
\* by the text before its first tab, the empty slice txt[i..i] and the text
\* after the tab.
TabLoop(parts) ==
    LET txt == parts[Len(parts)]
        i == FindTab(txt)
    IN  IF i > 0 /\ Len(txt) > 1
        THEN TabLoop(SubSeq(parts, 1, Len(parts) - 1)
                     \o <<Slice(txt, 1, i), <<>>, Slice(txt, i + 1, Len(txt) + 1)>>)
        ELSE parts

\* One Text run through "Add tabs": a part that is exactly one tab becomes a
\* Tab token, every other part a Text run.
TabParts(run) ==
    LET parts == TabLoop(<<run.text>>) IN
    [k \in 1..Len(parts) |->
        IF parts[k] = <<"\t">> THEN TTab ELSE [run EXCEPT !.text = parts[k]]]

RECURSIVE AddTabs(_)
AddTabs(v) ==
    IF v = <<>> THEN <<>>
    ELSE (IF v[1].kind = "Text" THEN TabParts(v[1]) ELSE <<v[1]>>)
         \o AddTabs(Tail(v))

RECURSIVE StrSplit(_, _)
\* str::split(c): the pieces between the occurrences of c.
StrSplit(t, c) ==
    LET ps == {p \in 1..Len(t) : t[p] = c} IN
    IF ps = {} THEN <<t>>
    ELSE <<Slice(t, 1, MinOf(ps))>>
         \o StrSplit(Slice(t, MinOf(ps) + 1, Len(t) + 1), c)

\* One Text run split at c: the pieces as Text runs with a Space token
\* (the run's size and font) between two pieces.
SplitRun(run, c) ==
    LET split == StrSplit(run.text, c) IN
    [k \in 1..(2 * Len(split) - 1) |->
        IF k % 2 = 1 THEN [run EXCEPT !.text = split[(k + 1) \div 2]]
        ELSE TSpace(run.size, run.font)]

RECURSIVE SplitWrap(_, _)
\* One iteration of "for c in [' ', '-']".
SplitWrap(v, c) ==
    IF v = <<>> THEN <<>>
    ELSE (IF v[1].kind = "Text" THEN SplitRun(v[1], c) ELSE <<v[1]>>)
         \o SplitWrap(Tail(v), c)

\* A filter that keeps every run.
RemoveEmptyKeepAll(v) == v

\* "Remove any strings of zero length"
RemoveEmpty(v) ==
    SelectSeq(v, LAMBDA p : IF p.kind = "Text" THEN Len(p.text) > 0 ELSE TRUE)

\* The steps of Text::parse after the first run list is built, numbered 1 to
\* 10: the five markup passes, the placeholder extraction, the tabs, the two
\* wrap splits and the removal of empty runs.
ParseStage(k, v) ==
    CASE k \in 1..5 -> MarkupPass(REGEXES[k], v)
      [] k = 6 -> ExtractPlaceholders(v)
      [] k = 7 -> Done(AddTabs(v))
      [] k = 8 -> Done(SplitWrap(v, " "))
      [] k = 9 -> Done(SplitWrap(v, "-"))
      [] k = 10 -> Done(RemoveEmpty(v))

\* r followed by rest, Failed when either is an Err.
Joined(r, rest) == IF r.ok /\ rest.ok THEN Done(r.vec \o rest.vec) ELSE Failed

RECURSIVE ParseUpTo(_, _, _)
\* Steps k to n of Text::parse in order; the first Err is returned.
ParseUpTo(n, k, r) ==
    IF ~r.ok THEN Failed
    ELSE IF k > n THEN r
    ELSE ParseUpTo(n, k + 1, ParseStage(k, r.vec))

\* The base style Text::new hands to Text::parse: the object's size
\* expression (its value), its color and font, bold = italic = false.
BaseSize == 10
BaseColor == <<<<"1">>, <<"1">>, <<"1">>, <<"1">>>>
BaseFont == <<"f">>

\* Text::parse from its first run list on.
Parse(string, base_size, base_font, bold, italic, color) ==
    ParseUpTo(10, 1, Done(<<TText(string, bold, italic, color, base_size, base_font)>>))

(***************************************************************************)
(* The tokenizer as a state machine                                        *)
(***************************************************************************)

\* The characters of the lines the model enumerates, and their length.
Alphabet == {"a", "*", " ", "-"}
MaxLineLen == 5

EnumeratedLines == UNION {[1..n -> Alphabet] : n \in 0..MaxLineLen}

L_BoldItalic ==
    <<"*", "*", "b", "o", "l", "d", "*", "*", " ", "a", "n", "d", " ",
      "*", "i", "t", "a", "l", "i", "c", "*">>
L_BoldOuter == <<"*", "*", "a", " ", "*", "b", "*", " ", "c", "*", "*">>
L_ItalicOuter == <<"*", "a", " ", "*", "*", "b", "*", "*", " ", "c", "*">>
L_SizeOuter ==
    <<"~", "2", "0", "~", "a", " ", "*", "*", "b", "*", "*", " ", "c", "~", "~">>
L_BoldOverSize ==
    <<"*", "*", "a", " ", "~", "2", "0", "~", "b", "~", "~", " ", "c", "*", "*">>
L_Color ==
    <<Backquote, "1", ";", "0", ";", " ", "0", Backquote, "a", "_", "g", "_", "b",
      "_", "_", Backquote, Backquote>>
L_FontUnknown == <<"_", "x", "_", "a", "_", "_">>
L_PadLeft == <<"{", "0", "<", "3", "{", "h", "}", "}">>
L_PadRight == <<"{", "0", ">", "3", "{", "h", "}", "}">>
L_Bare == <<"a", "{", "{", "h", "}", "}", "b">>
L_Pad128 == <<"{", "0", "<", "1", "2", "8", "{", "h", "}", "}">>
L_Pad200 == <<"{", "0", "<", "2", "0", "0", "{", "h", "}", "}">>
L_Tab == <<"a", "\t", "b">>
L_Hyphen == <<"a", "-", "b", " ", "c">>
L_PadOverflow ==
    <<"{", "0", "<", "2", "1", "4", "7", "4", "8", "3", "6", "4", "8", "{", "h",
      "}", "}">>

ExampleLines ==
    {L_BoldItalic, L_BoldOuter, L_ItalicOuter, L_SizeOuter, L_BoldOverSize,
     L_Color, L_FontUnknown, L_PadLeft, L_PadRight, L_Bare, L_Tab, L_Hyphen,
     L_PadOverflow, L_Pad128, L_Pad200}

\* Text::parse is entered: vec holds the whole line as one run.
ParseInit ==
    /\ line \in EnumeratedLines \cup ExampleLines
    /\ vec = <<TText(line, FALSE, FALSE, BaseColor, BaseSize, BaseFont)>>
    /\ stage = 0
    /\ status = "run"

\* One iteration of "for (i, regex) in REGEXES.iter().enumerate()"; an Err of
\* the pass's function ends the call.
MarkupStep ==
    /\ status = "run"
    /\ stage < 5
    /\ \E r \in {MarkupPass(REGEXES[stage + 1], vec)} :
         IF r.ok
         THEN /\ vec' = r.vec
              /\ stage' = stage + 1
              /\ UNCHANGED status
         ELSE /\ status' = "err"
              /\ UNCHANGED <<vec, stage>>
    /\ UNCHANGED <<line, slideVars, textVars, padVars, extVars>>

\* "Find any placeholders and split them from the rest of the text."
PlaceholderStep ==
    /\ status = "run"
    /\ stage = 5
    /\ \E r \in {ExtractPlaceholders(vec)} :
         IF r.ok
         THEN /\ vec' = r.vec
              /\ stage' = 6
              /\ UNCHANGED status
         ELSE /\ status' = "err"
              /\ UNCHANGED <<vec, stage>>
    /\ UNCHANGED <<line, slideVars, textVars, padVars, extVars>>

\* "Add tabs"
TabStep ==
    /\ status = "run"
    /\ stage = 6
    /\ vec' = AddTabs(vec)
    /\ stage' = 7
    /\ UNCHANGED <<line, status, slideVars, textVars, padVars, extVars>>

\* One iteration of "for c in [' ', '-']".
WrapStep ==
    /\ status = "run"
    /\ stage \in {7, 8}
    /\ vec' = SplitWrap(vec, IF stage = 7 THEN " " ELSE "-")
    /\ stage' = stage + 1
    /\ UNCHANGED <<line, status, slideVars, textVars, padVars, extVars>>

\* "Remove any strings of zero length", and Ok(vec).
FilterStep ==
    /\ status = "run"
    /\ stage = 9
    /\ vec' = RemoveEmpty(vec)
    /\ stage' = 10
    /\ status' = "ok"
    /\ UNCHANGED <<line, slideVars, textVars, padVars, extVars>>

(***************************************************************************)
(* The tokenizer: properties                                               *)
(***************************************************************************)

Plain(str) == TText(str, FALSE, FALSE, BaseColor, BaseSize, BaseFont)

Bold(str) == TText(str, TRUE, FALSE, BaseColor, BaseSize, BaseFont)

Italic(str) == TText(str, FALSE, TRUE, BaseColor, BaseSize, BaseFont)

BoldItalic(str) == TText(str, TRUE, TRUE, BaseColor, BaseSize, BaseFont)

BaseSpace == TSpace(BaseSize, BaseFont)

\* Two runs have the same style: they differ at most in their text.
SameStyle(a, b) == a = [b EXCEPT !.text = a.text]

RECURSIVE KeepsStyle(_, _, _)
\* new is old with every run split into 2n+1 pieces, n the number of matches
\* of re in the run, and the pieces before, between and after the matches
\* (the 1st, 3rd, ... of every run) have the style of the run.
KeepsStyle(re, old, new) ==
    IF old = <<>> THEN new = <<>>
    ELSE LET n == 2 * Len(CapturesIter(re, old[1].text, 1)) + 1 IN
         /\ Len(new) >= n
         /\ \A k \in 1..n : k % 2 = 1 => SameStyle(new[k], old[1])
         /\ KeepsStyle(re, Tail(old), SubSeq(new, n + 1, Len(new)))

C8_Expected ==
    <<Bold(<<"b", "o", "l", "d">>), BaseSpace, Plain(<<"a", "n", "d">>),
      BaseSpace, Italic(<<"i", "t", "a", "l", "i", "c">>)>>

\* C8: a markup match changes the style of the matched span only.  Every
\* successful markup pass leaves the text before and after each match in the
\* style of the run it was split from, and the line "**bold** and *italic*"
\* tokenizes to exactly: bold (bold only), Space, and (plain), Space, italic
\* (italic only).
C8_MatchedSpanOnly ==
    /\ [](line = L_BoldItalic /\ status = "ok" => vec = C8_Expected)
    /\ [][MarkupStep /\ stage' = stage + 1
            => KeepsStyle(REGEXES[stage + 1], vec, vec')]_vars

\* The example line has been tokenized to the five expected tokens.
C8_Witness ==
    /\ line = L_BoldItalic
    /\ status = "ok"
    /\ Len(vec) = 5
    /\ vec[1].bold /\ ~vec[1].italic
    /\ ~vec[3].bold /\ ~vec[3].italic
    /\ vec[5].italic /\ ~vec[5].bold

RECURSIVE Visible(_)
\* The visible text of a token list: the text of the Text runs in order,
\* every Space token read as one space character.
Visible(v) ==
    IF v = <<>> THEN <<>>
    ELSE (CASE v[1].kind = "Text" -> v[1].text
            [] v[1].kind = "Space" -> <<" ">>
            [] OTHER -> <<>>)
         \o Visible(Tail(v))

\* The line with its markup delimiters removed: the text of the runs the five
\* markup passes leave.
Unmarked(t) == Visible(ParseUpTo(5, 1, Done(<<Plain(t)>>)).vec)

HasPlaceholder(v) == \E k \in 1..Len(v) : v[k].kind = "Placeholder"

HasTab(t) == \E p \in 1..Len(t) : t[p] = "\t"

\* C9: tokenizing preserves the visible text.  When Text::parse returns Ok
\* for a line without placeholders (and without tab characters, which are
\* no visible text), the text of the Text runs, each Space read as one
\* space, is the line without its markup delimiters; lines with hyphens
\* included.
C9_VisibleTextPreserved ==
    status = "ok" /\ ~HasPlaceholder(vec) /\ ~HasTab(line)
        => Visible(vec) = Unmarked(line)

C10_Expected ==
    <<Bold(<<"a">>), BaseSpace, BoldItalic(<<"b">>), BaseSpace, Bold(<<"c">>)>>

\* C10: the markup passes run in the order size, color, font, bold, italic,
\* each over the output of the one before.  The line "**a *b* c**" yields a and c bold only and b bold
\* and italic; the line "*a **b** c*" yields no italic run; and a size span
\* around a bold span gives the bold run the size, while a bold span around
\* a size span is not recognised.
C10_PassOrder ==
    /\ line = L_BoldOuter /\ status = "ok" => vec = C10_Expected
    /\ line = L_ItalicOuter /\ status = "ok" =>
         \A k \in 1..Len(vec) : vec[k].kind = "Text" => ~vec[k].italic
    /\ line = L_ItalicOuter /\ stage = 4 =>
         \E k \in 1..Len(vec) : vec[k].bold /\ vec[k].text = <<"b">>
    /\ line = L_SizeOuter /\ status = "ok" =>
         /\ \A k \in 1..Len(vec) : vec[k].size = 20
         /\ \E k \in 1..Len(vec) : vec[k].kind = "Text" /\ vec[k].bold
    /\ line = L_BoldOverSize /\ status = "ok" =>
         \A k \in 1..Len(vec) : vec[k].kind = "Text" => ~vec[k].bold

\* Both example lines of the pass order have been tokenized: b is bold and
\* italic inside the bold span, bold only inside the italic delimiters.
C10_Witness ==
    \/ /\ line = L_BoldOuter /\ status = "ok"
       /\ Len(vec) = 5 /\ vec[3].bold /\ vec[3].italic
    \/ /\ line = L_ItalicOuter /\ status = "ok"
       /\ \E k \in 1..Len(vec) : vec[k].kind = "Text" /\ vec[k].bold

\* The number of tokens of a kind in a token list, and of a character in a
\* string.
\* C24: when Text::parse returns Ok, no Text run of the token list has an
\* empty content, whatever the line: the empty line, delimiters only,
\* spaces or hyphens at either end or in a row.
C24_NoEmptyRuns ==
    status = "ok" =>
        \A k \in 1..Len(vec) : vec[k].kind = "Text" => Len(vec[k].text) > 0

\* Lines whose split at the spaces leaves empty runs have been tokenized:
\* a line of one space and a line that starts with two spaces.
C24_Witness ==
    /\ status = "ok"
    /\ \/ line = <<" ">> /\ vec = <<TSpace(BaseSize, BaseFont)>>
       \/ line = <<" ", " ", "a">>
            /\ vec = <<TSpace(BaseSize, BaseFont), TSpace(BaseSize, BaseFont),
                       Plain(<<"a">>)>>

CountKind(v, kind) == Cardinality({k \in 1..Len(v) : v[k].kind = kind})
CountChar(t, c) == Cardinality({p \in 1..Len(t) : t[p] = c})

\* C11: tab splitting.  When Text::parse returns Ok the token list holds one
\* Tab token for every tab character of the line, and the line a, tab, b
\* tokenizes to Text a, Tab, Text b.
C11_TabTokens ==
    /\ status = "ok" => CountKind(vec, "Tab") = CountChar(line, "\t")
    /\ line = L_Tab /\ status = "ok" => vec = <<Plain(<<"a">>), TTab, Plain(<<"b">>)>>

(***************************************************************************)
(* Text::new and Text::pad_num                                             *)
(***************************************************************************)

RECURSIVE TextNew(_)
\* The loop of Text::new over the lines: the tokens of every line followed by
\* a NewLine; the first Err of Text::parse is returned.
TextNew(lines) ==
    IF lines = <<>> THEN Done(<<>>)
    ELSE Joined(Joined(Parse(lines[1], BaseSize, BaseFont, FALSE, FALSE, BaseColor),
                       Done(<<TNewLine>>)),
                TextNew(Tail(lines)))

DigitChar(d) == <<"0", "1", "2", "3", "4", "5", "6", "7", "8", "9">>[d + 1]

RECURSIVE NatToString(_)
\* The decimal digits of a natural number.
NatToString(n) ==
    IF n < 10 THEN <<DigitChar(n)>>
    ELSE Append(NatToString(n \div 10), DigitChar(n % 10))

\* c repeated n times.
Repeat(c, n) == [k \in 1..n |-> c]

\* An f64 value m * 10^e (m a natural number not ending in 0 unless it is 0).
F64(m, e) == [m |-> m, e |-> e]

\* f64::to_string of such a value: the shortest digits that read back as the
\* value, followed by the zeros up to the decimal point; never an exponent.
F64ToString(num) ==
    IF num.m = 0 THEN <<"0">> ELSE NatToString(num.m) \o Repeat("0", num.e)

\* The result of an i8 operation whose exact value is n: the value when it
\* is in range; otherwise a panic in a build with overflow checks and the
\* wrapped value in a build without.
I8Op(n, overflow_checks) ==
    IF n >= -128 /\ n <= 127 THEN [ok |-> TRUE, val |-> n]
    ELSE IF overflow_checks THEN [ok |-> FALSE, val |-> 0]
    ELSE [ok |-> TRUE, val |-> AsI8(n)]

\* i8::abs
I8Abs(n, overflow_checks) == I8Op(IF n < 0 THEN -n ELSE n, overflow_checks)

Returned(str) == [kind |-> "ok", str |-> str]

\* The call does not return: a panic of the thread.
Panicked == [kind |-> "panic", str |-> <<>>]

\* The call does not return: a loop of about 2^64 iterations that appends to
\* a string until the allocation fails.
Exhausted == [kind |-> "exhausted", str |-> <<>>]

\* Text::pad_num.  numstr.len() is cast to i8 for the test and the loop
\* bound is computed in usize.
PadNum(num, pad_amount, pad_char, pad_dir_str, overflow_checks) ==
    LET numstr == F64ToString(num)
        diff == I8Op(pad_amount - AsI8(Len(numstr)), overflow_checks)
        count == pad_amount - Len(numstr)
        padstr == Repeat(pad_char, count)
    IN  IF ~diff.ok THEN Panicked
        ELSE IF diff.val > 0 /\ pad_amount < 0 THEN Exhausted
        ELSE IF diff.val > 0 /\ count < 0
        THEN (IF overflow_checks THEN Panicked ELSE Exhausted)
        ELSE LET pad == IF diff.val > 0 THEN padstr ELSE <<>> IN
             CASE pad_dir_str = "<" -> Returned(pad \o numstr)
               [] pad_dir_str = ">" -> Returned(numstr \o pad)
               [] OTHER -> Returned(pad)

\* The arguments of the calls of pad_num the model makes.
MaxPad == 5
PadValues == {F64(0, 0), F64(7, 0), F64(42, 0), F64(12345, 0), F64(1, 127), F64(1, 256)}
PadAmounts == (-MaxPad..MaxPad) \cup {-128, 127}
PadChars == {"0", " "}
PadDirs == {"<", ">", ""}

PadInit ==
    /\ padIn \in [num : PadValues, pad_amount : PadAmounts, pad_char : PadChars,
                  pad_dir_str : PadDirs, overflow_checks : BOOLEAN]
    /\ padOut = <<>>

\* One call of pad_num.
PadNumCall ==
    /\ padOut = <<>>
    /\ padOut' = PadNum(padIn.num, padIn.pad_amount, padIn.pad_char,
                        padIn.pad_dir_str, padIn.overflow_checks)
    /\ UNCHANGED <<padIn, slideVars, parseVars, textVars, extVars>>

Max(a, b) == IF a >= b THEN a ELSE b

\* C6: pad_num returns the decimal string of the value with the pad
\* character repeated max(0, pad_amount - len) times before it for "<" and
\* after it for ">": the call returns, the result has max(pad_amount, len)
\* characters and holds every digit of the number.
C6_PadNumContract ==
    padOut # <<>> /\ padIn.pad_dir_str \in {"<", ">"} =>
        LET numstr == F64ToString(padIn.num)
            padstr == Repeat(padIn.pad_char, Max(0, padIn.pad_amount - Len(numstr)))
        IN  /\ padOut.kind = "ok"
            /\ padOut.str = IF padIn.pad_dir_str = "<" THEN padstr \o numstr
                            ELSE numstr \o padstr
            /\ Len(padOut.str) = Max(padIn.pad_amount, Len(numstr))

\* C29: the padding width a placeholder is rendered with is the number N of
\* its markup, for every N Text::parse accepts: N parsed as an i32, cast to
\* i8 for the token and read back with abs() is N again, in a build with
\* and in one without overflow checks, and the cast does not make the
\* amount negative (the sign is what the padding direction is read off).
C29_PadAmountPreserved ==
    status = "ok" /\ FirstPlaceholder(line).ok /\ FirstPlaceholder(line).padded =>
        \A k \in 1..Len(vec) :
            vec[k].kind = "Placeholder"
                /\ vec[k].index = FirstPlaceholder(line).name =>
                /\ vec[k].pad_amount >= 0
                /\ \A oc \in BOOLEAN :
                      /\ I8Abs(vec[k].pad_amount, oc).ok
                      /\ I8Abs(vec[k].pad_amount, oc).val
                            = ParseI32(FirstPlaceholder(line).padamount).val

(***************************************************************************)
(* Text objects: construction and one frame                                *)
(***************************************************************************)

L_Wrap3 ==
    <<"a", "a", "a", "a", "a", " ", "b", "b", "b", "b", "b", " ",
      "c", "c", "c", "c", "c">>
L_Word == <<"a", "a", "a", "a", "a">>
L_Letter == <<"a">>
L_BigSpace == <<"a", "a", "a", "a", "a", "~", "2", "0", "~", " ", "~", "~", "a">>
L_ItalicWord == <<"*", "a", "a", "*", " ", "a", "a">>
L_Missing == <<"a", "{", "{", "x", "}", "}">>
L_TabOnly == <<"\t">>
L_BigWord == <<"a", "a", "a", "a", "a", " ", "~", "2", "0", "~", "b", "b", "~", "~">>

\* The lines the model builds Text objects from.
LayoutLines ==
    {L_Wrap3, L_Word, L_Letter, L_BigSpace, L_ItalicWord, L_Missing, L_TabOnly,
     L_PadLeft, L_PadRight, L_FontUnknown, L_BigWord}

\* The number of lines of a Text object.
MaxTextLines == 2

TextSources == UNION {[1..n -> LayoutLines] : n \in 1..MaxTextLines}

TextInit ==
    /\ src \in TextSources
    /\ view = <<>>
    /\ text = <<>>
    /\ pc = "new"
    /\ idx = 0
    /\ line_widths = <<>>
    /\ line_heights = <<>>
    /\ curr_width = 0
    /\ curr_max_height = 0
    /\ height = 0
    /\ starting_pos = <<0, 0>>
    /\ current_pos = <<0, 0>>
    /\ current_line = 0
    /\ draws = <<>>
    /\ breaks1 = <<>>
    /\ breaks2 = <<>>

\* Text::new: Ok(Text) with the token list, or the Err of Text::parse.
TextNewCall ==
    /\ pc = "new"
    /\ \E r \in {TextNew(src)} :
         IF r.ok THEN text' = r.vec /\ pc' = "ready"
         ELSE pc' = "err" /\ UNCHANGED text
    /\ UNCHANGED <<src, view, idx, measureVars, drawVars, breaks1, breaks2,
                   slideVars, parseVars, padVars, extVars>>

(***************************************************************************)
(* Text::render: the measurement pass                                      *)
(***************************************************************************)

\* ITALIC_ADVANCE_FAC = 0.10 as the divisor of the size.
ItalicAdvanceDiv == 10

\* The number of default sizes between two tab stops.
TabSizes == 12

\* Font::size(text, size).0 under the fixed-advance metrics: every character
\* of a run of size s is s units wide (10 px per character at size 10), for
\* the base and the bold face alike.
FontSize(str, size) == Len(str) * size

\* (x / size_incs).ceil() * size_incs
CeilTo(x, size_incs) == (-((-x) \div size_incs)) * size_incs

\* The placeholder map of the Text object: the name h is bound to an
\* expression of value 7, no other name is bound.
PlaceholderName == <<"h">>
PlaceholderValue == F64(7, 0)

\* A placeholder map that binds every name.
PlaceholdersGetAny(index) == Some(PlaceholderValue)

\* HashMap::get on the placeholder map.
PlaceholdersGet(index) ==
    IF index = PlaceholderName THEN Some(PlaceholderValue) ELSE None

\* The string a Placeholder token is measured and drawn as: pad_num of the
\* value, pad_amount.abs() and the direction read off the sign of pad_amount.
PlaceholderText(part, val, overflow_checks) ==
    LET pad_dir_str == IF part.pad_amount < 0 THEN "<" ELSE ">"
        amount == I8Abs(part.pad_amount, overflow_checks)
    IN  IF ~amount.ok THEN Panicked
        ELSE PadNum(val, amount.val, part.pad_char, pad_dir_str, overflow_checks)

\* part_width of a Text or Placeholder run shown as str.
PartWidth(part, str) ==
    FontSize(str, part.size) + (IF part.italic THEN part.size \div ItalicAdvanceDiv ELSE 0)

\* The frames the model renders: max_width, pos, the alignment multipliers
\* of the box and of the text (doubled: 0, 1, 2 for 0, 0.5, 1) and the
\* default size.
MaxWidths == {35, 55, 65, 125}
Positions == {<<0, 0>>, <<100, 40>>}
Views ==
    [max_width : MaxWidths, pos : Positions, alignment : {<<0, 0>>, <<1, 1>>, <<2, 2>>},
     text_align : {0, 1, 2}, default_size : {BaseSize}]

Part == text[idx]

AtToken(pass, kind) ==
    /\ pc = pass
    /\ idx <= Len(text)
    /\ Part.kind = kind

\* Text::render is entered: the locals of the measurement pass.
RenderBegin ==
    /\ pc = "ready"
    /\ \E v \in Views : view' = v /\ curr_max_height' = v.default_size
    /\ pc' = "measure"
    /\ idx' = 1
    /\ height' = 0
    /\ line_widths' = <<>>
    /\ line_heights' = <<>>
    /\ curr_width' = 0
    /\ UNCHANGED <<src, text, drawVars, breaks1, breaks2, slideVars, parseVars, padVars, extVars>>

MeasureTab ==
    /\ AtToken("measure", "Tab")
    /\ LET size_incs == view.default_size * TabSizes IN
         curr_width' = IF CeilTo(curr_width, size_incs) <= view.max_width
                       THEN CeilTo(curr_width, size_incs) ELSE curr_width
    /\ idx' = idx + 1
    /\ UNCHANGED <<src, view, text, pc, line_widths, line_heights, curr_max_height,
                   height, drawVars, breaks1, breaks2, slideVars, parseVars, padVars, extVars>>

MeasureNewLine ==
    /\ AtToken("measure", "NewLine")
    /\ line_widths' = Append(line_widths, curr_width)
    /\ line_heights' = Append(line_heights, curr_max_height)
    /\ height' = height + curr_max_height
    /\ curr_width' = 0
    /\ curr_max_height' = view.default_size
    /\ breaks1' = Append(breaks1, idx + 1)
    /\ idx' = idx + 1
    /\ UNCHANGED <<src, view, text, pc, drawVars, breaks2, slideVars, parseVars, padVars, extVars>>

MeasureSpace ==
    /\ AtToken("measure", "Space")
    /\ curr_max_height' = Max(curr_max_height, Part.size)
    /\ LET width == FontSize(<<" ">>, Part.size) IN
         curr_width' = IF curr_width + width <= view.max_width
                       THEN curr_width + width ELSE curr_width
    /\ idx' = idx + 1
    /\ UNCHANGED <<src, view, text, pc, line_widths, line_heights, height, drawVars,
                   breaks1, breaks2, slideVars, parseVars, padVars, extVars>>

\* The measurement of a run that never starts a new line.
MeasureRunNoWrap(part_width, part_size) ==
    /\ curr_width' = curr_width + part_width
    /\ curr_max_height' = Max(curr_max_height, part_size)
    /\ UNCHANGED <<height, line_widths, line_heights, breaks1>>

\* The measurement of a run part_width wide and part_size high: the shared
\* body of the Text arm and of the Some arm of the Placeholder arm.
MeasureRun(part_width, part_size) ==
    IF curr_width + part_width > view.max_width
    THEN /\ height' = height + Max(curr_max_height, part_size)
         /\ line_widths' = Append(line_widths, curr_width)
         /\ line_heights' = Append(line_heights, Max(curr_max_height, part_size))
         /\ curr_width' = part_width
         /\ curr_max_height' = view.default_size
         /\ breaks1' = Append(breaks1, idx)
    ELSE /\ curr_width' = curr_width + part_width
         /\ curr_max_height' = Max(curr_max_height, part_size)
         /\ UNCHANGED <<height, line_widths, line_heights, breaks1>>

MeasureText ==
    /\ AtToken("measure", "Text")
    /\ MeasureRun(PartWidth(Part, Part.text), Part.size)
    /\ idx' = idx + 1
    /\ UNCHANGED <<src, view, text, pc, drawVars, breaks2, slideVars, parseVars, padVars, extVars>>

MeasurePlaceholder ==
    /\ AtToken("measure", "Placeholder")
    /\ \E got \in {PlaceholdersGet(Part.index)} :
         IF got.some
         THEN \E str \in {PlaceholderText(Part, got.v, oc) : oc \in BOOLEAN} :
                IF str.kind = "ok"
                THEN /\ MeasureRun(PartWidth(Part, str.str), Part.size)
                     /\ idx' = idx + 1
                     /\ UNCHANGED pc
                ELSE /\ pc' = str.kind
                     /\ UNCHANGED <<idx, measureVars, breaks1>>
         ELSE /\ idx' = idx + 1
              /\ UNCHANGED <<pc, measureVars, breaks1>>
    /\ UNCHANGED <<src, view, text, drawVars, breaks2, slideVars, parseVars, padVars, extVars>>

(***************************************************************************)
(* Text::render: the draw pass                                             *)
(***************************************************************************)

\* vec[i] of a Vec indexed from 0: in bounds, and the element.
InBounds(v, i) == i < Len(v)
At(v, i) == v[i + 1]

\* starting_pos.0 + (max_width - line_widths[k]) * text_align, doubled.
LineStart(k) == starting_pos[1] + (view.max_width - At(line_widths, k)) * view.text_align

\* The end of the measurement pass: the sentinel line, starting_pos and the
\* start of the first line.
MeasureEnd ==
    /\ pc = "measure"
    /\ idx > Len(text)
    /\ line_widths' = Append(line_widths, 0)
    /\ line_heights' = Append(line_heights, view.default_size)
    /\ current_line' = 0
    /\ starting_pos' = <<2 * view.pos[1] - view.max_width * view.alignment[1],
                         2 * view.pos[2] - height * view.alignment[2]>>
    /\ current_pos' = <<starting_pos'[1]
                          + (view.max_width - line_widths'[1]) * view.text_align,
                        starting_pos'[2]>>
    /\ pc' = "draw"
    /\ idx' = 1
    /\ draws' = <<>>
    /\ UNCHANGED <<src, view, text, curr_width, curr_max_height, height, breaks1,
                   breaks2, slideVars, parseVars, padVars, extVars>>

DrawTab ==
    /\ AtToken("draw", "Tab")
    /\ LET size_incs == 2 * view.default_size * TabSizes
           stop == CeilTo(current_pos[1], size_incs)
       IN  current_pos' = IF stop - starting_pos[1] <= 2 * view.max_width
                          THEN <<stop, current_pos[2]>> ELSE current_pos
    /\ idx' = idx + 1
    /\ UNCHANGED <<src, view, text, pc, measureVars, starting_pos, current_line, draws,
                   breaks1, breaks2, slideVars, parseVars, padVars, extVars>>

DrawNewLine ==
    /\ AtToken("draw", "NewLine")
    /\ IF InBounds(line_widths, current_line)
       THEN /\ current_pos' = <<LineStart(current_line),
                                current_pos[2] + 2 * At(line_heights, current_line)>>
            /\ current_line' = current_line + 1
            /\ breaks2' = Append(breaks2, idx + 1)
            /\ idx' = idx + 1
            /\ UNCHANGED pc
       ELSE /\ pc' = "out_of_bounds"
            /\ UNCHANGED <<current_pos, current_line, breaks2, idx>>
    /\ UNCHANGED <<src, view, text, measureVars, starting_pos, draws, breaks1,
                   slideVars, parseVars, padVars, extVars>>

DrawSpace ==
    /\ AtToken("draw", "Space")
    /\ current_pos' = <<current_pos[1] + 2 * FontSize(<<" ">>, Part.size), current_pos[2]>>
    /\ idx' = idx + 1
    /\ UNCHANGED <<src, view, text, pc, measureVars, starting_pos, current_line, draws,
                   breaks1, breaks2, slideVars, parseVars, padVars, extVars>>

\* The call of Font::draw under context.trans(x, y), positions doubled.
DrawCall(str, part, x, y) ==
    [text |-> str, size |-> part.size, bold |-> part.bold, italic |-> part.italic,
     color |-> part.color, x |-> x, y |-> y]

\* The drawing of a run shown as str whose wrap test starts at x (doubled)
\* and uses the width part_width: the shared body of the Text arm and of the
\* Some arm of the Placeholder arm.  An index out of bounds is a panic
\* (pc = "out_of_bounds").
DrawRun(str, x, part_width) ==
    LET wraps == x + 2 * part_width - starting_pos[1] > 2 * view.max_width
        drawn_line == IF wraps THEN current_line + 1 ELSE current_line
        x0 == IF wraps THEN LineStart(current_line) ELSE x
        y0 == IF wraps THEN current_pos[2] + 2 * At(line_heights, current_line)
              ELSE current_pos[2]
    IN  IF (wraps /\ ~InBounds(line_widths, current_line))
           \/ ~InBounds(line_heights, drawn_line)
        THEN /\ pc' = "out_of_bounds"
             /\ UNCHANGED <<current_pos, current_line, draws, breaks2, idx>>
        ELSE /\ current_line' = drawn_line
             /\ draws' = Append(draws,
                    DrawCall(str, Part, x0,
                             y0 + 2 * At(line_heights, drawn_line) - 2 * Part.size))
             /\ current_pos' = <<x0 + 2 * part_width, y0>>
             /\ breaks2' = IF wraps THEN Append(breaks2, idx) ELSE breaks2
             /\ idx' = idx + 1
             /\ UNCHANGED pc

\* The italic advance of a Text run is added to current_pos before the wrap
\* test and is no part of the width the position advances by.
DrawText ==
    /\ AtToken("draw", "Text")
    /\ DrawRun(Part.text,
               current_pos[1]
                 + (IF Part.italic THEN 2 * (Part.size \div ItalicAdvanceDiv) ELSE 0),
               FontSize(Part.text, Part.size))
    /\ UNCHANGED <<src, view, text, measureVars, starting_pos, breaks1, slideVars,
                   parseVars, padVars, extVars>>

\* The italic advance of a Placeholder run is part of its width.
DrawPlaceholder ==
    /\ AtToken("draw", "Placeholder")
    /\ \E got \in {PlaceholdersGet(Part.index)} :
         IF got.some
         THEN \E str \in {PlaceholderText(Part, got.v, oc) : oc \in BOOLEAN} :
                IF str.kind = "ok"
                THEN DrawRun(str.str, current_pos[1], PartWidth(Part, str.str))
                ELSE /\ pc' = str.kind
                     /\ UNCHANGED <<current_pos, current_line, draws, breaks2, idx>>
         ELSE /\ idx' = idx + 1
              /\ UNCHANGED <<pc, current_pos, current_line, draws, breaks2>>
    /\ UNCHANGED <<src, view, text, measureVars, starting_pos, breaks1, slideVars,
                   parseVars, padVars, extVars>>

\* Text::render returns.
DrawEnd ==
    /\ pc = "draw"
    /\ idx > Len(text)
    /\ pc' = "done"
    /\ UNCHANGED <<src, view, text, idx, measureVars, drawVars, breaks1, breaks2,
                   slideVars, parseVars, padVars, extVars>>

(***************************************************************************)
(* Text::render: properties                                                *)
(***************************************************************************)

\* C2: the draw pass starts a new line before exactly the tokens the
\* measurement pass started one before: when Text::render has returned, the
\* two passes have the same line breaks.
C2_SameLineBreaks == pc = "done" => breaks2 = breaks1

\* C3: greedy word wrap in the measurement pass.  A Text run goes on the
\* current line when curr_width + part_width <= max_width; otherwise the
\* line is flushed with the width it had and the run starts the next line.
\* With 10 units per character and max_width = 55 the line
\* "aaaaa bbbbb ccccc" is measured as three lines of one word each.
C3_GreedyWrap ==
    /\ [](src = <<L_Wrap3>> /\ pc \in {"draw", "done"} /\ view.max_width = 55
            => /\ line_widths = <<50, 50, 50, 0>>
               /\ breaks1 = <<3, 5, 7>>)
    /\ [][AtToken("measure", "Text") =>
            LET part_width == PartWidth(Part, Part.text) IN
            IF curr_width + part_width <= view.max_width
            THEN /\ curr_width' = curr_width + part_width
                 /\ line_widths' = line_widths
            ELSE /\ curr_width' = part_width
                 /\ line_widths' = Append(line_widths, curr_width)]_vars

\* The example line has been measured at max_width = 55: a break before
\* bbbbb and before ccccc.
C3_Witness ==
    /\ src = <<L_Wrap3>>
    /\ pc = "done"
    /\ view.max_width = 55
    /\ Len(line_widths) = 4
    /\ SubSeq(breaks1, 1, 2) = <<3, 5>>

\* C4: rendering a Text never aborts the frame: every index current_line
\* used into line_widths and line_heights in the draw pass is in bounds.
C4_IndicesInBounds == pc # "out_of_bounds"

\* C5: a Placeholder whose name the placeholder map does not hold is a no-op
\* in both passes: the step over it changes neither the line width, the
\* line's height, the line lists and the total height, nor the draw position
\* and the line index, draws nothing and does not abort; it only moves on to
\* the next token.
C5_MissingPlaceholderNoOp ==
    [][(AtToken("measure", "Placeholder") \/ AtToken("draw", "Placeholder"))
         /\ Part.index # PlaceholderName
         => /\ UNCHANGED <<measureVars, drawVars, breaks1, breaks2, pc>>
            /\ idx' = idx + 1]_vars

\* A frame has been rendered over a Placeholder with an unbound name, and
\* the only call of Font::draw is the one of the Text run before it.
C5_Witness ==
    /\ src = <<L_Missing>>
    /\ pc = "done"
    /\ \E k \in 1..Len(text) :
         text[k].kind = "Placeholder" /\ text[k].index # PlaceholderName
    /\ Len(draws) = 1
    /\ line_widths = <<10, 0>>

\* C7: the padding direction of the markup is the one applied when the
\* value is drawn: with the value 7, the placeholder written with 0, < and 3
\* is drawn as 007 and the one written with 0, > and 3 as 700.
C7_DirectionApplied ==
    /\ src = <<L_PadLeft>> /\ pc = "done" => draws[1].text = <<"0", "0", "7">>
    /\ src = <<L_PadRight>> /\ pc = "done" => draws[1].text = <<"7", "0", "0">>

\* C21: in the measurement pass a Space that does not fit on the current
\* line (curr_width + width > max_width) flushes the line, as a Text run
\* does: the width of the line is recorded, the total height grows and the
\* Space is accumulated on the new line.
C21_SpaceFlushes ==
    [][AtToken("measure", "Space")
         /\ curr_width + FontSize(<<" ">>, Part.size) > view.max_width
         => /\ line_widths' = Append(line_widths, curr_width)
            /\ Len(line_heights') = Len(line_heights) + 1
            /\ height' > height
            /\ curr_width' = FontSize(<<" ">>, Part.size)]_vars

\* The tokens of line k (counted from 1) of the measurement pass, read off
\* the line breaks it made.
LineTokens(k) ==
    {i \in 1..Len(text) :
        /\ i >= (IF k = 1 THEN 1 ELSE breaks1[k - 1])
        /\ i < breaks1[k]}

\* The sizes of the runs among the tokens: a Placeholder no value is bound
\* to is no run.
RunSizes(tokens) ==
    {text[i].size : i \in {j \in tokens :
        \/ text[j].kind \in {"Text", "Space"}
        \/ text[j].kind = "Placeholder" /\ PlaceholdersGet(text[j].index).some}}

MaxOf(S) == CHOOSE x \in S : \A y \in S : y <= x

\* C22: the height the measurement pass records for a line is the maximum
\* of default_size and the sizes of the runs placed on that line; a run
\* that is wrapped counts for the line it is placed on.
C22_LineHeights ==
    pc \in {"draw", "done"} =>
        \A k \in 1..Len(breaks1) :
            line_heights[k]
                = MaxOf(RunSizes(LineTokens(k)) \cup {view.default_size})

\* C23: in the measurement pass a Tab moves curr_width to the next multiple
\* of 12 * default_size strictly greater than curr_width when that multiple
\* is <= max_width (also at the start of a line, from 0), and leaves it as
\* it is otherwise; so the width never decreases and never exceeds max_width
\* by a Tab.
C23_TabAdvances ==
    [][AtToken("measure", "Tab") =>
          LET size_incs == view.default_size * TabSizes
              next_stop == (curr_width \div size_incs + 1) * size_incs
          IN  curr_width' = IF next_stop <= view.max_width THEN next_stop
                            ELSE curr_width]_vars

\* C30: a wrap in the measurement pass records no empty line: when a Text
\* or Placeholder run makes the pass record a line because it does not fit,
\* that line holds something (its width is > 0); a run wider than max_width
\* at the start of a line is placed on that line.
C30_NoEmptyWrapLine ==
    [][(AtToken("measure", "Text") \/ AtToken("measure", "Placeholder"))
         /\ Len(line_widths') = Len(line_widths) + 1
         => curr_width > 0 /\ line_widths'[Len(line_widths')] > 0]_vars

\* C20: in the draw pass every line starts at
\* starting_pos.x + (max_width - line_widths[k]) * text_align with k the
\* index of the line itself: the position after a NewLine token and the
\* position the first run of a line entered by a wrap is drawn at are the
\* ones computed from the width of the line entered, for every text_align.
C20_LineStartOwnWidth ==
    [][pc = "draw" /\ pc' = "draw" /\ current_line' = current_line + 1 =>
          IF AtToken("draw", "NewLine")
          THEN current_pos'[1] = LineStart(current_line + 1)
          ELSE draws'[Len(draws')].x = LineStart(current_line + 1)]_vars

(***************************************************************************)
(* ColoredRect, RoundedRect and Image: the box they draw                   *)
(***************************************************************************)

Alignments ==
    {"TopLeft", "TopRight", "TopCentered", "MidLeft", "MidRight",
     "MidCentered", "BottomLeft", "BottomRight", "BottomCentered"}

\* An alignment converted with TopRight and TopCentered exchanged.
AlignmentIntoSwapped(a) ==
    CASE a = "TopLeft" -> <<0, 0>>
      [] a = "TopRight" -> <<1, 0>>
      [] a = "TopCentered" -> <<2, 0>>
      [] a = "MidLeft" -> <<0, 1>>
      [] a = "MidRight" -> <<2, 1>>
      [] a = "MidCentered" -> <<1, 1>>
      [] a = "BottomLeft" -> <<0, 2>>
      [] a = "BottomRight" -> <<2, 2>>
      [] a = "BottomCentered" -> <<1, 2>>

\* impl Into<(f64,f64)> for Alignment, the multipliers doubled.
AlignmentInto(a) ==
    CASE a = "TopLeft" -> <<0, 0>>
      [] a = "TopRight" -> <<2, 0>>
      [] a = "TopCentered" -> <<1, 0>>
      [] a = "MidLeft" -> <<0, 1>>
      [] a = "MidRight" -> <<2, 1>>
      [] a = "MidCentered" -> <<1, 1>>
      [] a = "BottomLeft" -> <<0, 2>>
      [] a = "BottomRight" -> <<2, 2>>
      [] a = "BottomCentered" -> <<1, 2>>

\* The rectangle [x, y, w, h] handed to the drawing call, doubled:
\* [pos.0 - size.0*alignment.0, pos.1 - size.1*alignment.1, size.0, size.1].
BoxRect(pos_eval, size_eval, alignment) ==
    <<2 * pos_eval[1] - size_eval[1] * alignment[1],
      2 * pos_eval[2] - size_eval[2] * alignment[2],
      2 * size_eval[1], 2 * size_eval[2]>>

ShapeTypes == {"ColoredRect", "RoundedRect", "Image"}

BoxPositions == {<<100, 100>>, <<0, 7>>}

BoxSizes == {<<20, 10>>, <<15, 5>>}

Shapes ==
    [type : ShapeTypes, pos : BoxPositions, size : BoxSizes,
     alignment : Alignments]

BoxInit ==
    /\ shape \in Shapes
    /\ drawn = <<>>

\* ColoredRect::render
ColoredRectRender ==
    /\ shape # <<>>
    /\ shape.type = "ColoredRect"
    /\ drawn' = BoxRect(shape.pos, shape.size, AlignmentInto(shape.alignment))
    /\ UNCHANGED <<shape, exceptBox>>

\* RoundedRect::render: pos_eval is moved by the alignment, then the rounded
\* rectangle [pos_eval.0, pos_eval.1, size_eval.0, size_eval.1] is drawn.
RoundedRectRender ==
    /\ shape # <<>>
    /\ shape.type = "RoundedRect"
    /\ LET alignment == AlignmentInto(shape.alignment)
           moved == <<2 * shape.pos[1] - shape.size[1] * alignment[1],
                      2 * shape.pos[2] - shape.size[2] * alignment[2]>>
       IN  drawn' = <<moved[1], moved[2], 2 * shape.size[1], 2 * shape.size[2]>>
    /\ UNCHANGED <<shape, exceptBox>>

\* Image::render
ImageRender ==
    /\ shape # <<>>
    /\ shape.type = "Image"
    /\ drawn' = BoxRect(shape.pos, shape.size, AlignmentInto(shape.alignment))
    /\ UNCHANGED <<shape, exceptBox>>

\* The names of the alignments by column and by row.
LeftNames == {"TopLeft", "MidLeft", "BottomLeft"}
CenteredNames == {"TopCentered", "MidCentered", "BottomCentered"}
TopNames == {"TopLeft", "TopRight", "TopCentered"}
MidNames == {"MidLeft", "MidRight", "MidCentered"}

\* C12: the box of a ColoredRect, RoundedRect or Image has the extent size
\* and its top-left origin at pos - size*(mx, my), mx being 0, 0.5, 1 for
\* Left, Centered, Right and my being 0, 0.5, 1 for Top, Mid, Bottom; with
\* pos = (100,100), size = (20,10) and MidCentered the origin is (90,95).
C12_BoxOrigin ==
    drawn # <<>> =>
        LET a == shape.alignment
            mx2 == IF a \in LeftNames THEN 0 ELSE IF a \in CenteredNames THEN 1 ELSE 2
            my2 == IF a \in TopNames THEN 0 ELSE IF a \in MidNames THEN 1 ELSE 2
        IN  /\ drawn[1] = 2 * shape.pos[1] - shape.size[1] * mx2
            /\ drawn[2] = 2 * shape.pos[2] - shape.size[2] * my2
            /\ drawn[3] = 2 * shape.size[1]
            /\ drawn[4] = 2 * shape.size[2]
            /\ (shape.pos = <<100, 100>> /\ shape.size = <<20, 10>>
                    /\ a = "MidCentered")
                 => drawn = <<2 * 90, 2 * 95, 2 * 20, 2 * 10>>

C12_Witness ==
    /\ drawn # <<>>
    /\ shape.type = "RoundedRect"
    /\ shape.alignment = "TopRight"
    /\ shape.size = <<15, 5>>

(***************************************************************************)
(* Expressions (util::res_dependent_expr)                                  *)
(*                                                                         *)
(* An expression string is a sequence of characters in which an identifier *)
(* is kept whole as one element.  The meval grammar is modelled for        *)
(* numbers, identifiers, calls, parentheses, unary + and - and the binary  *)
(* operators + - * / %; a parsed expression is its token list in reverse   *)
(* Polish notation, as in meval.  Values are exact fractions [n, d].       *)
(***************************************************************************)

ExprPunct == {"+", "-", "*", "/", "%", "(", ")", ",", ";", ".", " ", "#"}

IsIdent(c) == c # "" /\ c \notin Digits /\ c \notin ExprPunct

\* F applied to the value v: a value that F uses more than once is
\* written once.
With(v, F(_)) == F(v)

RECURSIVE Replace(_, _, _)
\* str::replace(c, with) for a one-character pattern.
Replace(t, c, with) ==
    IF t = <<>> THEN <<>>
    ELSE (IF t[1] = c THEN with ELSE <<t[1]>>) \o Replace(Tail(t), c, with)

RECURSIVE Gcd(_, _)
Gcd(a, b) == IF b = 0 THEN a ELSE Gcd(b, a % b)

Abs(n) == IF n < 0 THEN 0 - n ELSE n

\* An f64 that is not finite (an infinity or NaN).
NonFinite == [n |-> 0, d |-> 0]

\* The fraction n/d in lowest terms.
Frac(n, d) ==
    IF d = 0 THEN NonFinite
    ELSE LET g == Gcd(Abs(n), Abs(d))
             s == IF d < 0 THEN 0 - 1 ELSE 1
         IN  [n |-> s * (n \div g), d |-> s * (d \div g)]

Finite(a) == a.d # 0

FracLess(a, b) == a.n * b.d < b.n * a.d

\* The binary operators of meval on two values.
BinaryOp(op, a, b) ==
    IF ~Finite(a) \/ ~Finite(b) THEN NonFinite
    ELSE CASE op = "+" -> Frac(a.n * b.d + b.n * a.d, a.d * b.d)
           [] op = "-" -> Frac(a.n * b.d - b.n * a.d, a.d * b.d)
           [] op = "*" -> Frac(a.n * b.n, a.d * b.d)
           [] op = "/" -> Frac(a.n * b.d, a.d * b.n)
           [] op = "%" ->
                IF b.n = 0 THEN NonFinite
                ELSE LET x == a.n * b.d
                         y == b.n * a.d
                         q == IF (x < 0) = (y < 0) THEN Abs(x) \div Abs(y)
                              ELSE 0 - (Abs(x) \div Abs(y))
                     IN  Frac(x - q * y, a.d * b.d)

\* The tokens of a parsed expression.
TNumber(v) == [kind |-> "Number", name |-> "", val |-> v, argc |-> 0]
TVar(name) == [kind |-> "Var", name |-> name, val |-> NonFinite, argc |-> 0]
TBinary(op) == [kind |-> "Binary", name |-> op, val |-> NonFinite, argc |-> 2]
TUnary(op) == [kind |-> "Unary", name |-> op, val |-> NonFinite, argc |-> 1]
TFunc(name, argc) == [kind |-> "Func", name |-> name, val |-> NonFinite, argc |-> argc]

RECURSIVE SkipWs(_, _)
SkipWs(t, p) == IF CharAt(t, p) = " " THEN SkipWs(t, p + 1) ELSE p

RECURSIVE DigitsEnd(_, _)
\* The position after the digits that start at p.
DigitsEnd(t, p) == IF CharAt(t, p) \in Digits THEN DigitsEnd(t, p + 1) ELSE p

RECURSIVE Pow10(_)
Pow10(k) == IF k = 0 THEN 1 ELSE 10 * Pow10(k - 1)

\* The number literal that starts at p: digits, then optionally a point and
\* digits.
NumberAt(t, p) ==
    With(DigitsEnd(t, p), LAMBDA e1 :
    With(IF CharAt(t, e1) = "." THEN DigitsEnd(t, e1 + 1) ELSE e1, LAMBDA e2 :
    With(IF e2 > e1 THEN Slice(t, e1 + 1, e2) ELSE <<>>, LAMBDA frac :
        [next |-> e2,
         val |-> Frac(DecimalValue(Slice(t, p, e1)) * Pow10(Len(frac))
                        + DecimalValue(frac),
                      Pow10(Len(frac)))])))

ParseOk(rpn, next, unary_plus) ==
    [ok |-> TRUE, rpn |-> rpn, next |-> next, err |-> "", pos |-> 0,
     unary_plus |-> unary_plus]

ParseErr(err, pos) ==
    [ok |-> FALSE, rpn |-> <<>>, next |-> 0, err |-> err, pos |-> pos,
     unary_plus |-> FALSE]

RECURSIVE ParseSum(_, _), SumTail(_, _, _), ParseProduct(_, _)
RECURSIVE ProductTail(_, _, _), ParseAtom(_, _), ParseArgs(_, _, _)
RECURSIVE ParseCall(_, _, _), ParseParen(_, _), ParseSigned(_, _, _)

\* A call: the arguments after the opening parenthesis, then the function
\* with the number of its arguments.
ParseCall(t, name, open) ==
    With(ParseArgs(t, open + 1, [rpn |-> <<>>, argc |-> 0, up |-> FALSE]),
         LAMBDA args :
        IF ~args.ok THEN args
        ELSE ParseOk(args.rpn \o <<TFunc(name, args.pos)>>, args.next,
                     args.unary_plus))

\* A parenthesised expression, from the position after the parenthesis.
ParseParen(t, p) ==
    With(ParseSum(t, p), LAMBDA inner :
        IF ~inner.ok THEN inner
        ELSE With(SkipWs(t, inner.next), LAMBDA close :
            IF close > Len(t) THEN ParseErr("MissingRParen", 1)
            ELSE IF t[close] # ")" THEN ParseErr("UnexpectedToken", close - 1)
            ELSE ParseOk(inner.rpn, close + 1, inner.unary_plus)))

\* An operand under the unary sign c.
ParseSigned(t, p, c) ==
    With(ParseAtom(t, p), LAMBDA operand :
        IF ~operand.ok THEN operand
        ELSE ParseOk(operand.rpn \o <<TUnary(c)>>, operand.next,
                     operand.unary_plus \/ c = "+"))

\* An operand: a number, a variable, a call, a parenthesised expression or
\* an operand under a unary sign.
ParseAtom(t, p) ==
    With(SkipWs(t, p), LAMBDA q :
    With(CharAt(t, q), LAMBDA c :
        IF q > Len(t) THEN ParseErr("MissingArgument", 0)
        ELSE IF c \in Digits THEN
            With(NumberAt(t, q), LAMBDA num :
                ParseOk(<<TNumber(num.val)>>, num.next, FALSE))
        ELSE IF IsIdent(c) THEN
            With(SkipWs(t, q + 1), LAMBDA open :
                IF CharAt(t, open) = "(" THEN ParseCall(t, c, open)
                ELSE ParseOk(<<TVar(c)>>, q + 1, FALSE))
        ELSE IF c = "(" THEN ParseParen(t, q + 1)
        ELSE IF c \in {"+", "-"} THEN ParseSigned(t, q + 1, c)
        ELSE ParseErr("UnexpectedToken", q - 1)))

\* The arguments of a call up to its closing parenthesis; the result's pos
\* is the number of arguments.
ParseArgs(t, p, acc) ==
    With(ParseSum(t, p), LAMBDA arg :
        IF ~arg.ok THEN arg
        ELSE
    With(SkipWs(t, arg.next), LAMBDA q :
    With([rpn |-> acc.rpn \o arg.rpn, argc |-> acc.argc + 1,
          up |-> acc.up \/ arg.unary_plus], LAMBDA more :
        IF q > Len(t) THEN ParseErr("MissingRParen", 1)
        ELSE IF t[q] = "," THEN ParseArgs(t, q + 1, more)
        ELSE IF t[q] = ")" THEN
            [ParseOk(more.rpn, q + 1, more.up) EXCEPT !.pos = more.argc]
        ELSE ParseErr("UnexpectedToken", q - 1))))

\* The operand right of the operator c is appended to the expression left
\* of it.
Combine(left, right, c) ==
    ParseOk(left.rpn \o right.rpn \o <<TBinary(c)>>, right.next,
            left.unary_plus \/ right.unary_plus)

ProductTail(t, p, left) ==
    With(SkipWs(t, p), LAMBDA q :
    With(CharAt(t, q), LAMBDA c :
        IF c \in {"*", "/", "%"} THEN
            With(ParseAtom(t, q + 1), LAMBDA right :
                IF ~right.ok THEN right
                ELSE ProductTail(t, right.next, Combine(left, right, c)))
        ELSE [left EXCEPT !.next = q]))

ParseProduct(t, p) ==
    With(ParseAtom(t, p), LAMBDA first :
        IF ~first.ok THEN first ELSE ProductTail(t, first.next, first))

SumTail(t, p, left) ==
    With(SkipWs(t, p), LAMBDA q :
    With(CharAt(t, q), LAMBDA c :
        IF c \in {"+", "-"} THEN
            With(ParseProduct(t, q + 1), LAMBDA right :
                IF ~right.ok THEN right
                ELSE SumTail(t, right.next, Combine(left, right, c)))
        ELSE [left EXCEPT !.next = q]))

ParseSum(t, p) ==
    With(ParseProduct(t, p), LAMBDA first :
        IF ~first.ok THEN first ELSE SumTail(t, first.next, first))

\* str::parse::<meval::Expr>: the whole string is one expression.
MevalParse(t) ==
    With(ParseSum(t, 1), LAMBDA r :
        IF ~r.ok THEN r
        ELSE IF r.next <= Len(t) THEN ParseErr("UnexpectedToken", r.next - 1)
        ELSE r)

\* The functions of meval's built-in context with their number of
\* arguments (0: any number, at least one).
BuiltinFuncs ==
    {<<"sqrt", 1>>, <<"exp", 1>>, <<"ln", 1>>, <<"abs", 1>>, <<"sin", 1>>,
     <<"cos", 1>>, <<"tan", 1>>, <<"asin", 1>>, <<"acos", 1>>, <<"atan", 1>>,
     <<"sinh", 1>>, <<"cosh", 1>>, <<"tanh", 1>>, <<"asinh", 1>>,
     <<"acosh", 1>>, <<"atanh", 1>>, <<"floor", 1>>, <<"ceil", 1>>,
     <<"round", 1>>, <<"signum", 1>>, <<"atan2", 2>>, <<"max", 0>>,
     <<"min", 0>>}

\* The functions DefaultContext::new registers with ctx.func, ctx.func2 and
\* ctx.func3.
RegisteredFuncs ==
    {<<"easeInSine", 1>>, <<"easeOutSine", 1>>, <<"easeInOutSine", 1>>,
     <<"easeInPow", 2>>, <<"easeOutPow", 2>>, <<"easeInOutPow", 2>>,
     <<"easeInExpo", 1>>, <<"easeOutExpo", 1>>, <<"easeInOutExpo", 1>>,
     <<"easeInCirc", 1>>, <<"easeOutCirc", 1>>, <<"easeInOutCirc", 1>>,
     <<"clamp", 3>>, <<"isEqual", 2>>, <<"isGreater", 2>>, <<"isLess", 2>>,
     <<"mod", 2>>}

\* The functions of the default context.
DefaultContext == BuiltinFuncs \cup RegisteredFuncs

\* The list of available functions DefaultContext::new documents, every
\* name with the number of arguments it is documented with.
DocumentedFuncs ==
    {<<"sqrt", 1>>, <<"exp", 1>>, <<"ln", 1>>, <<"abs", 1>>, <<"sin", 1>>,
     <<"cos", 1>>, <<"tan", 1>>, <<"asin", 1>>, <<"acos", 1>>, <<"atan", 1>>,
     <<"sinh", 1>>, <<"cosh", 1>>, <<"tanh", 1>>, <<"asinh", 1>>,
     <<"acosh", 1>>, <<"atanh", 1>>, <<"floor", 1>>, <<"ceil", 1>>,
     <<"round", 1>>, <<"signum", 1>>, <<"atan2", 2>>, <<"max", 3>>,
     <<"min", 3>>,
     <<"easeInSine", 1>>, <<"easeOutSine", 1>>, <<"easeInOutSine", 1>>,
     <<"easeInPow", 2>>, <<"easeOutPow", 2>>, <<"easeInOutPow", 2>>,
     <<"easeInExp", 1>>, <<"easeOutExp", 1>>, <<"easeInOutExp", 1>>,
     <<"clamp", 3>>, <<"isEqual", 2>>, <<"isGreater", 2>>, <<"isLess", 2>>,
     <<"mod", 2>>}

\* The names bind3_with_context binds, and the constants of the context.
KnownVars == {"w", "h", "t", "pi", "e"}

FuncArity(ctx, name) == (CHOOSE f \in ctx : f[1] = name)[2]

HasFunc(ctx, name) == \E f \in ctx : f[1] = name

\* Whether a token of the expression fails when the expression is evaluated
\* in the context: an unknown variable, an unknown function or a call with
\* the wrong number of arguments.
TokenFails(ctx, tok) ==
    \/ tok.kind = "Var" /\ tok.name \notin KnownVars
    \/ tok.kind = "Func" /\ ~HasFunc(ctx, tok.name)
    \/ tok.kind = "Func" /\ HasFunc(ctx, tok.name)
         /\ FuncArity(ctx, tok.name) # 0
         /\ FuncArity(ctx, tok.name) # tok.argc

\* The description of the failure of a token.
BindErrorDesc(ctx, tok) ==
    IF tok.kind = "Var" THEN <<"Unknown variable '", tok.name, "'!">>
    ELSE IF ~HasFunc(ctx, tok.name) THEN <<"Unknown function '", tok.name, "()'">>
    ELSE <<"Invalid number of arguments for function '", tok.name, "()'!">>

\* Expr::bind3_with_context: the expression is evaluated once to check it;
\* the result is the first token that fails, if any.
Bind(ctx, rpn) ==
    With({k \in 1..Len(rpn) : TokenFails(ctx, rpn[k])}, LAMBDA bad :
        IF bad = {} THEN [ok |-> TRUE, desc |-> <<>>]
        ELSE [ok |-> FALSE, desc |-> BindErrorDesc(ctx, rpn[MinOf(bad)])])

\* The value of a function this model does not compute.
Opaque == [n |-> 0, d |-> 0 - 1]

FracMax(a, b) == IF FracLess(a, b) THEN b ELSE a

FracMin(a, b) == IF FracLess(a, b) THEN a ELSE b

Bool01(b) == IF b THEN Frac(1, 1) ELSE Frac(0, 1)

RECURSIVE FoldArgs(_, _)
FoldArgs(op, args) ==
    IF Len(args) = 1 THEN args[1]
    ELSE IF op = "max" THEN FracMax(args[1], FoldArgs(op, Tail(args)))
    ELSE FracMin(args[1], FoldArgs(op, Tail(args)))

\* A call of a function of the context; computed for the functions that
\* keep fractions exact.
CallFunc(name, args) ==
    IF \E k \in 1..Len(args) : args[k].d <= 0 THEN
        args[MinOf({k \in 1..Len(args) : args[k].d <= 0})]
    ELSE CASE name = "abs" -> Frac(Abs(args[1].n), args[1].d)
           [] name \in {"max", "min"} -> FoldArgs(name, args)
           [] name = "clamp" -> FracMin(FracMax(args[1], args[2]), args[3])
           [] name = "isEqual" -> Bool01(args[1] = args[2])
           [] name = "isGreater" -> Bool01(FracLess(args[2], args[1]))
           [] name = "isLess" -> Bool01(FracLess(args[1], args[2]))
           [] name = "mod" -> BinaryOp("%", args[1], args[2])
           [] OTHER -> Opaque

\* The values of the view: width, height and time.
Env(w, h, t) == [w |-> Frac(w, 1), h |-> Frac(h, 1), t |-> Frac(t, 1)]

VarValue(env, name) ==
    CASE name = "w" -> env.w
      [] name = "h" -> env.h
      [] name = "t" -> env.t
      [] OTHER -> Opaque

Operate(op, a, b) ==
    IF a.d <= 0 THEN a ELSE IF b.d <= 0 THEN b ELSE BinaryOp(op, a, b)

\* The stack after a token of the expression.
EvalToken(tok, stack, n, env) ==
    CASE tok.kind = "Number" -> Append(stack, tok.val)
      [] tok.kind = "Var" -> Append(stack, VarValue(env, tok.name))
      [] tok.kind = "Unary" ->
            Append(SubSeq(stack, 1, n - 1),
                   IF tok.name = "-" THEN Operate("-", Frac(0, 1), stack[n])
                   ELSE stack[n])
      [] tok.kind = "Binary" ->
            Append(SubSeq(stack, 1, n - 2),
                   Operate(tok.name, stack[n - 1], stack[n]))
      [] tok.kind = "Func" ->
            Append(SubSeq(stack, 1, n - tok.argc),
                   CallFunc(tok.name, SubSeq(stack, n - tok.argc + 1, n)))

RECURSIVE EvalRpn(_, _, _, _)
\* The evaluation of a bound expression: the tokens in order against a
\* stack of values.
EvalRpn(rpn, k, stack, env) ==
    IF k > Len(rpn) THEN stack[Len(stack)]
    ELSE EvalRpn(rpn, k + 1, EvalToken(rpn[k], stack, Len(stack), env), env)

\* The errors of PropertyError.
SyntaxError(r, p, desc) ==
    [kind |-> "SyntaxError", r |-> r, p |-> p, desc |-> desc, errors |-> <<>>]
MismatchedExprCount ==
    [kind |-> "MismatchedExprCount", r |-> "", p |-> "", desc |-> <<>>, errors |-> <<>>]
BadAlignment ==
    [kind |-> "BadAlignment", r |-> "", p |-> "", desc |-> <<>>, errors |-> <<>>]
LuaError(desc) ==
    [kind |-> "LuaError", r |-> "", p |-> "", desc |-> desc, errors |-> <<>>]
MultiError(errors) ==
    [kind |-> "MultiError", r |-> "", p |-> "", desc |-> <<>>, errors |-> errors]
NoError ==
    [kind |-> "", r |-> "", p |-> "", desc |-> <<>>, errors |-> <<>>]

\* The description of a parse error of meval.
ParseErrorDesc(r, mstring) ==
    CASE r.err = "MissingArgument" ->
            <<"Expression Parsing error: Missing argument at end of the expression!">>
      [] r.err = "MissingRParen" ->
            <<"Expression Parsing error: ">> \o NatToString(r.pos)
                \o <<" missing right parentheses!">>
      [] r.err = "UnexpectedToken" ->
            <<"Expression Parsing error: Unexpected token at position ">>
                \o NatToString(r.pos) \o <<":">> \o mstring

\* util::lua_expr: the string is loaded as a Lua chunk.  Of the strings meval
\* parses, Lua compiles the ones that are a single call statement, written
\* without a unary plus.
LuaExpr(lstring) ==
    With(MevalParse(lstring), LAMBDA r :
        IF r.ok /\ ~r.unary_plus /\ r.rpn[Len(r.rpn)].kind = "Func"
            /\ IsIdent(CharAt(lstring, SkipWs(lstring, 1)))
        THEN [ok |-> TRUE, err |-> NoError]
        ELSE [ok |-> FALSE, err |-> LuaError(<<"syntax error">>)])

ExprOk(variant, rpn, base_string) ==
    [ok |-> TRUE, variant |-> variant, rpn |-> rpn, base_string |-> base_string,
     err |-> NoError]

ExprErr(err) ==
    [ok |-> FALSE, variant |-> "", rpn |-> <<>>, base_string |-> <<>>, err |-> err]

\* ResExprType::str
ResExprTypeStr(expr_type) == IF expr_type = "WidthBased" THEN "w" ELSE "h"

\* util::res_dependent_expr with the default context: the percent sign is
\* replaced, the string is parsed and bound as a math expression, and a
\* string that parses but does not bind is tried as a Lua snippet.
res_dependent_expr(exprstr, expr_type) ==
    With(Replace(exprstr, "%",
                 <<"/", "1", "0", "0", "*", ResExprTypeStr(expr_type)>>),
         LAMBDA mstring :
    With(MevalParse(mstring), LAMBDA parsed :
        IF ~parsed.ok
        THEN ExprErr(SyntaxError("", "", ParseErrorDesc(parsed, mstring)))
        ELSE
    With(Bind(DefaultContext, parsed.rpn), LAMBDA bound :
        IF bound.ok THEN ExprOk("MathExpr", parsed.rpn, mstring)
        ELSE
    With(LuaExpr(exprstr), LAMBDA lua :
        IF lua.ok THEN ExprOk("LuaExpr", <<>>, exprstr)
        ELSE ExprErr(MultiError(<<SyntaxError("", "", bound.desc), lua.err>>))))))

\* Every component is width based.
ExprTypeOfAllWidth(i) == "WidthBased"

\* The expression type of component i (from 0) of a list: i%2 selects
\* WidthBased or HeightBased.
ExprTypeOf(i) == IF i % 2 = 0 THEN "WidthBased" ELSE "HeightBased"

RECURSIVE ParseComponents(_, _)
\* The loop of parse_expression_list over the pieces from position i (from
\* 0): the first failure ends it.
ParseComponents(pieces, i) ==
    IF pieces = <<>> THEN [ok |-> TRUE, vec |-> <<>>, err |-> NoError]
    ELSE
    With(res_dependent_expr(pieces[1], ExprTypeOf(i)), LAMBDA e :
        IF ~e.ok THEN [ok |-> FALSE, vec |-> <<>>, err |-> e.err]
        ELSE
    With(ParseComponents(Tail(pieces), i + 1), LAMBDA rest :
        IF ~rest.ok THEN rest ELSE [rest EXCEPT !.vec = <<e>> \o rest.vec]))

\* util::parse_expression_list
parse_expression_list(string) == ParseComponents(StrSplit(string, ";"), 0)

\* A conversion that takes the first N of at least N expressions.
ExprVectorTryFromAtLeast(value, N) ==
    IF Len(value) >= N THEN [ok |-> TRUE, list |-> SubSeq(value, 1, N), err |-> NoError]
    ELSE [ok |-> FALSE, list |-> <<>>, err |-> MismatchedExprCount]

\* impl TryFrom<Vec<ResolutionDependentExpr>> for ExprVector<N>
ExprVectorTryFrom(value, N) ==
    IF Len(value) = N THEN [ok |-> TRUE, list |-> value, err |-> NoError]
    ELSE [ok |-> FALSE, list |-> <<>>, err |-> MismatchedExprCount]

\* impl TryFrom<&str> for Alignment
AlignmentTryFrom(value) ==
    CASE value \in {"TOP_LEFT", "TopLeft"} -> [ok |-> TRUE, v |-> "TopLeft"]
      [] value \in {"TOP_RIGHT", "TopRight"} -> [ok |-> TRUE, v |-> "TopRight"]
      [] value \in {"TOP_CENTERED", "TopCentered"} -> [ok |-> TRUE, v |-> "TopCentered"]
      [] value \in {"MID_LEFT", "MidLeft"} -> [ok |-> TRUE, v |-> "MidLeft"]
      [] value \in {"MID_RIGHT", "MidRight"} -> [ok |-> TRUE, v |-> "MidRight"]
      [] value \in {"MID_CENTERED", "MidCentered"} -> [ok |-> TRUE, v |-> "MidCentered"]
      [] value \in {"BOTTOM_LEFT", "BottomLeft"} -> [ok |-> TRUE, v |-> "BottomLeft"]
      [] value \in {"BOTTOM_RIGHT", "BottomRight"} -> [ok |-> TRUE, v |-> "BottomRight"]
      [] value \in {"BOTTOM_CENTERED", "BottomCentered"} ->
            [ok |-> TRUE, v |-> "BottomCentered"]
      [] OTHER -> [ok |-> FALSE, v |-> ""]

\* The closure err of BaseProperties::new: a syntax error gets the
\* renderable "_" and the property's name, any other error is kept.
BasePropertiesErr(prop, e) ==
    IF e.kind = "SyntaxError" THEN SyntaxError("_", prop, e.desc) ELSE e

\* One property of BaseProperties::new: the string is parsed as an
\* expression list and converted to an ExprVector<N>.
PropertyVector(string, N, prop) ==
    With(parse_expression_list(string), LAMBDA parsed :
        IF ~parsed.ok
        THEN [ok |-> FALSE, list |-> <<>>, err |-> BasePropertiesErr(prop, parsed.err)]
        ELSE
    With(ExprVectorTryFrom(parsed.vec, N), LAMBDA converted :
        IF ~converted.ok
        THEN [ok |-> FALSE, list |-> <<>>,
              err |-> BasePropertiesErr(prop, converted.err)]
        ELSE converted))

BaseOk(p, s, c, a) ==
    [ok |-> TRUE, pos |-> p, size |-> s, color |-> c, alignment |-> a,
     err |-> NoError]

BaseErr(e) ==
    [ok |-> FALSE, pos |-> <<>>, size |-> <<>>, color |-> <<>>, alignment |-> "",
     err |-> e]

\* BaseProperties::new
BasePropertiesNew(p, s, c, a) ==
    With(PropertyVector(p, 2, "pos"), LAMBDA pos_v :
        IF ~pos_v.ok THEN BaseErr(pos_v.err) ELSE
    With(PropertyVector(s, 2, "size"), LAMBDA size_v :
        IF ~size_v.ok THEN BaseErr(size_v.err) ELSE
    With(PropertyVector(c, 4, "color"), LAMBDA color_v :
        IF ~color_v.ok THEN BaseErr(color_v.err) ELSE
    With(AlignmentTryFrom(a), LAMBDA align_v :
        IF ~align_v.ok THEN BaseErr(BadAlignment)
        ELSE BaseOk(pos_v.list, size_v.list, color_v.list, align_v.v)))))

RECURSIVE JoinWith(_, _)
\* [String]::join(sep)
JoinWith(parts, sep) ==
    IF parts = <<>> THEN <<>>
    ELSE IF Len(parts) = 1 THEN parts[1]
    ELSE parts[1] \o <<sep>> \o JoinWith(Tail(parts), sep)

RECURSIVE syntax_error(_, _, _, _)
\* PropertyError::syntax_error: the renderable, the property and the
\* description of an error, each a text.
syntax_error(e, rtype, property, desc) ==
    CASE e.kind = "MismatchedExprCount" ->
            <<<<rtype>>, <<property>>, <<"Mismatched expression count!">>>>
      [] e.kind = "BadAlignment" ->
            <<<<rtype>>, <<property>>, <<"Invalid alignment string!">>>>
      [] e.kind = "SyntaxError" -> <<<<e.r>>, <<e.p>>, e.desc>>
      [] e.kind = "LuaError" -> <<<<rtype>>, <<property>>, e.desc>>
      [] e.kind = "MultiError" ->
            With([k \in 1..Len(e.errors) |->
                     syntax_error(e.errors[k], rtype, property, desc)],
                 LAMBDA each :
                <<JoinWith([k \in 1..Len(each) |-> each[k][1]], " / "),
                  JoinWith([k \in 1..Len(each) |-> each[k][2]], " / "),
                  JoinWith([k \in 1..Len(each) |-> each[k][3]], " / ")>>)

\* The closure merr(renderable, property, desc) of parse_base_properties
\* applied to an error; property is None or Some.
Merr(renderable, property, desc, e) ==
    With(syntax_error(e, renderable,
                      IF property.some THEN property.v ELSE "_", desc),
         LAMBDA rpd :
        IF property.some
        THEN <<"error while initializing property ">> \o rpd[2] \o <<" of ">>
                \o rpd[1] \o <<": ">> \o rpd[3]
        ELSE <<"error while creating ">> \o rpd[1] \o <<": ">> \o rpd[3])

HexLetters == {"a", "b", "c", "d", "e", "f"}

\* char::to_lowercase for the letters of a hexadecimal number.
ToLowercase(c) ==
    CASE c = "A" -> "a" [] c = "B" -> "b" [] c = "C" -> "c" [] c = "D" -> "d"
      [] c = "E" -> "e" [] c = "F" -> "f" [] OTHER -> c

HexVal(c) ==
    IF c \in Digits THEN DigitVal(c)
    ELSE CASE c = "a" -> 10 [] c = "b" -> 11 [] c = "c" -> 12 [] c = "d" -> 13
           [] c = "e" -> 14 [] c = "f" -> 15

\* u8::from_str_radix(s, 16) of a string of two characters: a leading plus
\* sign is skipped, and every character left has to be a digit.
U8FromStrRadix16(s) ==
    With(IF s[1] = "+" THEN Tail(s) ELSE s, LAMBDA digits :
        IF \E k \in 1..Len(digits) : digits[k] \notin Digits \cup HexLetters
        THEN [ok |-> FALSE, v |-> 0]
        ELSE [ok |-> TRUE,
              v |-> IF Len(digits) = 1 THEN HexVal(digits[1])
                    ELSE 16 * HexVal(digits[1]) + HexVal(digits[2])])

\* The number of decimal places the model writes a channel with.
ChannelPlaces == 7

RECURSIVE StripTrailingZeros(_)
StripTrailingZeros(t) ==
    IF t # <<>> /\ t[Len(t)] = "0" THEN StripTrailingZeros(SubSeq(t, 1, Len(t) - 1))
    ELSE t

\* The digits of a channel: rounded is the quotient times 10^ChannelPlaces.
ChannelDigits(rounded) ==
    With(rounded \div Pow10(ChannelPlaces), LAMBDA whole :
    With(rounded % Pow10(ChannelPlaces), LAMBDA frac :
        IF frac = 0 THEN NatToString(whole)
        ELSE With(NatToString(frac), LAMBDA digits :
            NatToString(whole) \o <<".">>
                \o StripTrailingZeros(Repeat("0", ChannelPlaces - Len(digits))
                                        \o digits))))

\* format!("{}", byte as f32 / 255.0): the f32 quotient is printed with the
\* fewest digits that read back as the same f32.  The model writes the
\* quotient rounded to ChannelPlaces decimal places, without trailing zeros;
\* the division is done in two steps to stay within 32 bits.
ChannelString(byte) ==
    With((byte * Pow10(ChannelPlaces - 1)) \div 255, LAMBDA a :
    With((byte * Pow10(ChannelPlaces - 1)) % 255, LAMBDA r :
        ChannelDigits(10 * a + (10 * r) \div 255
                      + (IF 2 * ((10 * r) % 255) >= 255 THEN 1 ELSE 0))))

\* No alpha digits read as 00.
DefaultAlphaZero == <<"0", "0">>

\* The alpha digits of a string that has none: "ff".
DefaultAlpha == <<"f", "f">>

\* The branch of parse_base_properties for a colour that starts with '#':
\* #RRGGBB or #RRGGBBAA becomes the four channels divided by 255, joined
\* with semicolons; alpha is ff when the string has no alpha digits.
HexColor(str) ==
    IF Len(str) # 7 /\ Len(str) # 9
    THEN [ok |-> FALSE, col |-> <<>>, msg |-> <<"invalid hexadecimal color format">>]
    ELSE
    With(U8FromStrRadix16(<<ToLowercase(str[2]), ToLowercase(str[3])>>), LAMBDA red :
    With(U8FromStrRadix16(<<ToLowercase(str[4]), ToLowercase(str[5])>>), LAMBDA green :
    With(U8FromStrRadix16(<<ToLowercase(str[6]), ToLowercase(str[7])>>), LAMBDA blue :
    With(IF Len(str) = 9
         THEN U8FromStrRadix16(<<ToLowercase(str[8]), ToLowercase(str[9])>>)
         ELSE U8FromStrRadix16(DefaultAlpha), LAMBDA alpha :
        IF ~red.ok \/ ~green.ok \/ ~blue.ok \/ ~alpha.ok
        THEN [ok |-> FALSE, col |-> <<>>,
              msg |-> <<"invalid hexadecimal color value">>]
        ELSE [ok |-> TRUE,
              col |-> JoinWith(<<ChannelString(red.v), ChannelString(green.v),
                                 ChannelString(blue.v), ChannelString(alpha.v)>>, ";"),
              msg |-> <<>>]))))

LoadOk(b, col) == [ok |-> TRUE, base |-> b, col |-> col, msg |-> <<>>]

LoadErr(b, col, msg) == [ok |-> FALSE, base |-> b, col |-> col, msg |-> msg]

\* Document::parse_base_properties of an object whose pos, size, col and
\* align are strings; the result keeps the colour string handed to
\* BaseProperties::new and what BaseProperties::new returned.
parse_base_properties(map, renderable_type) ==
    With(IF CharAt(map.col, 1) = "#" THEN HexColor(map.col)
         ELSE [ok |-> TRUE, col |-> map.col, msg |-> <<>>], LAMBDA converted :
        IF ~converted.ok THEN LoadErr(BaseErr(NoError), <<>>, converted.msg)
        ELSE
    With(BasePropertiesNew(map.pos, map.size, converted.col, map.alignment),
         LAMBDA b :
        IF ~b.ok
        THEN LoadErr(b, converted.col,
                 Merr(renderable_type, None,
                      "Invalid alignment or invalid expression count!", b.err))
        ELSE LoadOk(b, converted.col)))

\* The position strings of the objects of the document.
P_Percent == <<"5", "0", "%", ";", "5", "0", "%">>
P_Half == <<"0", ".", "5", "*", "w", ";", "0", ".", "5", "*", "h">>
P_Plain == <<"1", "0", "0", ";", "1", "0", "0">>
P_Mixed == <<"1", "0", "%", "+", "5", ";", "h", "-", "1", "0", "%">>
P_Sine == <<"easeInSine", "(", "t", ")", "*", "1", "0", "0", ";", "0">>
P_Exp == <<"easeInExp", "(", "t", ")", "*", "1", "0", "0", ";", "0">>
P_ExpCall == <<"0", ";", "easeInExp", "(", "t", ")">>
P_Expo == <<"easeInExpo", "(", "t", ")", "*", "1", "0", "0", ";", "0">>
P_Syntax == <<"1", "+", ";", "0">>
P_Unknown == <<"q", "*", "2", ";", "0">>
P_One == <<"1", "0", "0">>
P_Three == <<"1", ";", "2", ";", "3">>

PosStrings ==
    {P_Percent, P_Half, P_Plain, P_Mixed, P_Sine, P_Exp, P_ExpCall, P_Expo,
     P_Syntax, P_Unknown, P_One, P_Three}

S_Plain == <<"2", "0", ";", "1", "0">>
S_Percent == <<"2", "5", "%", ";", "2", "5", "%">>
S_Syntax == <<"2", "0", ";", "(", "1", "0">>
S_One == <<"2", "0">>

SizeStrings == {S_Plain, S_Percent, S_Syntax, S_One}

C_Red == <<"1", ";", "0", ";", "0", ";", "1">>
C_Hex == <<"#", "F", "F", "8", "0", "0", "0">>
C_HexAlpha == <<"#", "f", "f", "8", "0", "0", "0", "3", "3">>
C_HexShort == <<"#", "F", "F", "8", "0">>
C_HexBad == <<"#", "G", "G", "8", "0", "0", "0">>
C_Three == <<"1", ";", "0", ";", "0">>
C_Unknown == <<"1", ";", "0", ";", "x", ";", "1">>

ColStrings == {C_Red, C_Hex, C_HexAlpha, C_HexShort, C_HexBad, C_Three, C_Unknown}

AlignStrings == {"TOP_LEFT", "MidCentered", "CENTER"}

TypeStrings == {"ColoredRect", "RoundedRect"}

RawObjects ==
    [type : TypeStrings, pos : PosStrings, size : SizeStrings, col : ColStrings,
     alignment : AlignStrings]

\* The view sizes and times of a frame.
Frames == {Env(1280, 720, 0), Env(1920, 1080, 1), Env(7, 3, 2)}

LoadInit ==
    /\ raw \in RawObjects
    /\ loaded = <<>>
    /\ evald = <<>>

\* Document::parse_base_properties for the object.
ParseBaseProperties ==
    /\ raw # <<>>
    /\ loaded = <<>>
    /\ \E r \in {parse_base_properties(raw, raw.type)} : loaded' = r
    /\ UNCHANGED <<raw, evald, exceptLoad>>

\* ResolutionDependentExpr::evaluate: a math expression is computed from
\* width, height and time; the outcome of a Lua snippet is not computed.
Evaluate(expr, env) ==
    IF expr.variant = "MathExpr" THEN EvalRpn(expr.rpn, 1, <<>>, env) ELSE Opaque

\* ExprVector<2>::evaluate_tuple of pos and size, as the render functions
\* call it for a frame.
EvaluateTuple ==
    /\ loaded # <<>>
    /\ loaded.ok
    /\ \E env \in Frames :
         evald' = [env |-> env,
                   pos |-> <<Evaluate(loaded.base.pos[1], env),
                             Evaluate(loaded.base.pos[2], env)>>,
                   size |-> <<Evaluate(loaded.base.size[1], env),
                              Evaluate(loaded.base.size[2], env)>>]
    /\ UNCHANGED <<raw, loaded, exceptLoad>>

(***************************************************************************)
(* Load properties                                                         *)
(***************************************************************************)

\* The components of an expression list all parse.
AllParse(string) ==
    \A k \in 1..Len(StrSplit(string, ";")) :
        res_dependent_expr(StrSplit(string, ";")[k], ExprTypeOf(k - 1)).ok

\* The list has exactly N components and they all parse.
VectorOk(string, N) == AllParse(string) /\ Len(StrSplit(string, ";")) = N

\* The components all parse but there are not N of them.
CountOnly(string, N) == AllParse(string) /\ Len(StrSplit(string, ";")) # N

\* The colour string of an object is handed to BaseProperties::new: it is
\* not a hexadecimal colour that was rejected.
ReachedNew == loaded # <<>> /\ (loaded.ok \/ loaded.base.err # NoError)

\* C13: an expression vector of N components is built exactly when the
\* string splits at ';' into N components that all parse; when they all
\* parse and their number is not N the error is MismatchedExprCount, and
\* BaseProperties::new returns that error as it is for pos (N = 2), size
\* (N = 2) and color (N = 4).  For N = 4, 1;0;0;1 is built and 1;0;0 is not.
C13_ExprCount ==
    ReachedNew =>
        /\ loaded.base.ok <=>
              /\ VectorOk(raw.pos, 2) /\ VectorOk(raw.size, 2)
              /\ VectorOk(loaded.col, 4) /\ AlignmentTryFrom(raw.alignment).ok
        /\ CountOnly(raw.pos, 2) => loaded.base.err = MismatchedExprCount
        /\ VectorOk(raw.pos, 2) /\ CountOnly(raw.size, 2)
              => loaded.base.err = MismatchedExprCount
        /\ VectorOk(raw.pos, 2) /\ VectorOk(raw.size, 2) /\ CountOnly(loaded.col, 4)
              => loaded.base.err = MismatchedExprCount
        /\ VectorOk(raw.pos, 2) /\ VectorOk(raw.size, 2) /\ raw.col = C_Red
              => Len(loaded.base.color) = 4 \/ loaded.base.err = BadAlignment
        /\ raw.col = C_Three => ~loaded.base.ok

C13_Witness ==
    /\ ReachedNew
    /\ raw.pos = P_Plain /\ raw.size = S_Percent /\ raw.col = C_Three
    /\ loaded.base.err = MismatchedExprCount

\* The piece of an expression list with every percent sign written out for
\* the width (component 0, 2, ...) or the height (component 1, 3, ...).
WrittenOut(piece, i) ==
    Replace(piece, "%",
            IF i % 2 = 0 THEN <<"/", "1", "0", "0", "*", "w">>
            ELSE <<"/", "1", "0", "0", "*", "h">>)

\* C14: in an expression list the percent sign of component i is replaced by
\* /100*w when i is even and by /100*h when i is odd before the component is
\* parsed; so 50% as component 0 evaluates to 0.5*w (640 at w = 1280) and as
\* component 1 to 0.5*h, in every frame.
C14_PercentShorthand ==
    /\ loaded # <<>> /\ loaded.ok =>
          \A i \in 1..2 :
              /\ loaded.base.pos[i].variant = "MathExpr" =>
                    loaded.base.pos[i].base_string
                        = WrittenOut(StrSplit(raw.pos, ";")[i], i - 1)
              /\ loaded.base.size[i].variant = "MathExpr" =>
                    loaded.base.size[i].base_string
                        = WrittenOut(StrSplit(raw.size, ";")[i], i - 1)
    /\ evald # <<>> /\ raw.pos = P_Percent =>
          /\ evald.pos[1] = BinaryOp("/", evald.env.w, Frac(2, 1))
          /\ evald.pos[2] = BinaryOp("/", evald.env.h, Frac(2, 1))
          /\ evald.env.w = Frac(1280, 1) => evald.pos[1] = Frac(640, 1)
    /\ evald # <<>> /\ raw.pos = P_Half =>
          /\ evald.pos[1] = BinaryOp("/", evald.env.w, Frac(2, 1))
          /\ evald.pos[2] = BinaryOp("/", evald.env.h, Frac(2, 1))

C14_Witness ==
    /\ evald # <<>>
    /\ raw.pos = P_Percent
    /\ evald.env.w = Frac(1280, 1)
    /\ evald.pos = <<Frac(640, 1), Frac(360, 1)>>

\* The object's colour has the form #RRGGBB or #RRGGBBAA.
IsHexColor(str) ==
    /\ Len(str) \in {7, 9}
    /\ str[1] = "#"
    /\ \A k \in 2..Len(str) : ToLowercase(str[k]) \in Digits \cup HexLetters

\* The byte the two hexadecimal digits at positions k and k + 1 stand for.
ByteAt(str, k) == 16 * HexVal(ToLowercase(str[k])) + HexVal(ToLowercase(str[k + 1]))

\* The value of the number literal t is byte/255 to within 10^-7.
IsChannel(t, byte) ==
    /\ NumberAt(t, 1).next = Len(t) + 1
    /\ With(NumberAt(t, 1).val, LAMBDA v :
          /\ 2 * Abs(v.n * 255 - byte * v.d) * (Pow10(ChannelPlaces) \div 255) <= v.d
          /\ (byte = 255 => v = Frac(1, 1))
          /\ (byte = 0 => v = Frac(0, 1)))

\* C15: a colour #RRGGBB or #RRGGBBAA is handed to the expression parser as
\* the string r;g;b;a in which every channel is its byte divided by 255 and
\* alpha is 1 when the string has no alpha digits; #FF8000 becomes
\* 1;0.50196...;0;1.
C15_HexColor ==
    loaded # <<>> /\ IsHexColor(raw.col) =>
        With(StrSplit(loaded.col, ";"), LAMBDA channels :
            /\ Len(channels) = 4
            /\ IsChannel(channels[1], ByteAt(raw.col, 2))
            /\ IsChannel(channels[2], ByteAt(raw.col, 4))
            /\ IsChannel(channels[3], ByteAt(raw.col, 6))
            /\ IF Len(raw.col) = 9 THEN IsChannel(channels[4], ByteAt(raw.col, 8))
               ELSE channels[4] = <<"1">>
            /\ raw.col = C_Hex =>
                  /\ channels[1] = <<"1">>
                  /\ SubSeq(channels[2], 1, 7) = <<"0", ".", "5", "0", "1", "9", "6">>
                  /\ channels[3] = <<"0">>
                  /\ channels[4] = <<"1">>)

C15_Witness ==
    /\ loaded # <<>>
    /\ raw.col = C_Hex
    /\ loaded.col = <<"1", ";", "0", ".", "5", "0", "1", "9", "6", "0", "8", ";",
                      "0", ";", "1">>

\* The text holds the piece.
Contains(msg, piece) == \E k \in 1..Len(msg) : msg[k] = piece

\* C17: when the pos, size or color expression of an object fails to parse,
\* the error message for the object holds the object's type and the name of
\* the property that failed.
C17_ErrorNamesObject ==
    ReachedNew /\ ~loaded.ok =>
        /\ ~AllParse(raw.pos) =>
              Contains(loaded.msg, raw.type) /\ Contains(loaded.msg, "pos")
        /\ VectorOk(raw.pos, 2) /\ ~AllParse(raw.size) =>
              Contains(loaded.msg, raw.type) /\ Contains(loaded.msg, "size")
        /\ VectorOk(raw.pos, 2) /\ VectorOk(raw.size, 2) /\ ~AllParse(loaded.col) =>
              Contains(loaded.msg, raw.type) /\ Contains(loaded.msg, "color")

\* The expression parses, every function it calls is one of the documented
\* list and every variable it reads is one the context knows.
CallsDocumentedOnly(mstring) ==
    /\ MevalParse(mstring).ok
    /\ \A k \in 1..Len(MevalParse(mstring).rpn) :
           /\ MevalParse(mstring).rpn[k].kind = "Func" =>
                  HasFunc(DocumentedFuncs, MevalParse(mstring).rpn[k].name)
           /\ MevalParse(mstring).rpn[k].kind = "Var" =>
                  MevalParse(mstring).rpn[k].name \in KnownVars

\* The expression calls a function.
CallsFunc(mstring) ==
    \E k \in 1..Len(MevalParse(mstring).rpn) :
        MevalParse(mstring).rpn[k].kind = "Func"

\* C19: every function of the documented list is registered in the default
\* context under its documented name: a component of pos that calls only
\* documented functions (easeInExp among them) binds, so it is loaded as a
\* math expression.
C19_DocumentedFuncsBind ==
    loaded # <<>> =>
        \A i \in 1..Len(StrSplit(raw.pos, ";")) :
            With(StrSplit(raw.pos, ";")[i], LAMBDA piece :
                CallsFunc(WrittenOut(piece, i - 1))
                    /\ CallsDocumentedOnly(WrittenOut(piece, i - 1)) =>
                    /\ Bind(DefaultContext,
                            MevalParse(WrittenOut(piece, i - 1)).rpn).ok
                    /\ res_dependent_expr(piece, ExprTypeOf(i - 1)).ok
                    /\ res_dependent_expr(piece, ExprTypeOf(i - 1)).variant
                           = "MathExpr")

(***************************************************************************)
(* Presentation: the slide list and the current slide                      *)
(***************************************************************************)

\* The width of usize in the model, in bits.
UsizeBits == 16

RECURSIVE Pow2(_)
Pow2(k) == IF k = 0 THEN 1 ELSE 2 * Pow2(k - 1)

\* usize::MAX
UsizeMax == Pow2(UsizeBits) - 1

\* The cast usize as isize.
AsIsize(n) == IF n >= Pow2(UsizeBits - 1) THEN n - Pow2(UsizeBits) ELSE n

\* The cast isize as usize.
AsUsize(n) == IF n < 0 THEN n + Pow2(UsizeBits) ELSE n

\* The slides a presentation is built from, and how many it gets at most.
SlideIds == {1, 2}

MaxSlides == 3

\* previous_slide without the wrap: the first slide is kept.
previous_slide_clamped(current, len) ==
    IF AsIsize(current) - 1 < 0 THEN 0 ELSE AsUsize(AsIsize(current) - 1)

\* Presentation::previous_slide: the new value of current_slide.
previous_slide(current, len) ==
    IF AsIsize(current) - 1 < 0 THEN AsUsize(AsIsize(len) - 1)
    ELSE AsUsize(AsIsize(current) - 1)

\* Presentation::new
PresentationNew ==
    /\ slides = <<>>
    /\ current_slide = 0
    /\ shown = 0
    /\ pres_pc = "ok"
    /\ call = ""
    /\ from_slide = 0

\* Presentation::add_slide
AddSlide ==
    /\ pres_pc = "ok"
    /\ Len(slides) < MaxSlides
    /\ \E s \in SlideIds : slides' = Append(slides, s)
    /\ call' = "add_slide"
    /\ from_slide' = current_slide
    /\ UNCHANGED <<current_slide, shown, pres_pc, exceptPres>>

\* Presentation::next_slide.  The remainder by zero slides panics.  The sum
\* current_slide + 1 overflows at usize::MAX: a build with overflow checks
\* panics, a build without them wraps to 0.
NextSlideCall ==
    /\ pres_pc = "ok"
    /\ call' = "next_slide"
    /\ from_slide' = current_slide
    /\ \/ /\ Len(slides) = 0 \/ current_slide = UsizeMax
          /\ pres_pc' = "panic"
          /\ UNCHANGED current_slide
       \/ /\ Len(slides) # 0
          /\ current_slide' = ((current_slide + 1) % Pow2(UsizeBits)) % Len(slides)
          /\ UNCHANGED pres_pc
    /\ UNCHANGED <<slides, shown, exceptPres>>

\* Presentation::previous_slide
PreviousSlideCall ==
    /\ pres_pc = "ok"
    /\ call' = "previous_slide"
    /\ from_slide' = current_slide
    /\ current_slide' = previous_slide(current_slide, Len(slides))
    /\ UNCHANGED <<slides, shown, pres_pc, exceptPres>>

\* Presentation::render: the current slide is rendered; when there is none,
\* current_slide is set to 0.
PresentationRender ==
    /\ pres_pc = "ok"
    /\ call' = "render"
    /\ from_slide' = current_slide
    /\ IF current_slide < Len(slides)
       THEN shown' = slides[current_slide + 1] /\ UNCHANGED current_slide
       ELSE current_slide' = 0 /\ UNCHANGED shown
    /\ UNCHANGED <<slides, pres_pc, exceptPres>>

\* C16: with n >= 1 slides, next_slide moves from slide i to slide i + 1 and
\* from the last slide to slide 0, and previous_slide moves from slide i to
\* slide i - 1 and from slide 0 to the last slide.
C16_SlideWrap ==
    Len(slides) >= 1 /\ from_slide < Len(slides) =>
        /\ call = "next_slide" =>
              /\ pres_pc = "ok"
              /\ current_slide = IF from_slide = Len(slides) - 1 THEN 0 ELSE from_slide + 1
        /\ call = "previous_slide" =>
              /\ pres_pc = "ok"
              /\ current_slide = IF from_slide = 0 THEN Len(slides) - 1 ELSE from_slide - 1

C16_Witness ==
    /\ Len(slides) = MaxSlides
    /\ call = "previous_slide"
    /\ from_slide = 0
    /\ current_slide = MaxSlides - 1

\* C28: from Presentation::new on, whatever the calls of add_slide,
\* next_slide, previous_slide and render (navigation before the first
\* add_slide included), no call panics, and when there is at least one slide
\* current_slide is the index of a slide.
C28_NoAbortInRange ==
    /\ pres_pc # "panic"
    /\ Len(slides) >= 1 => current_slide < Len(slides)

(***************************************************************************)
(* SlideData::from_json_data: one entry of the array "content"             *)
(*                                                                         *)
(* A raw object is a function from its keys to JSON values; of a value     *)
(* only its kind matters (and, for the key "type", the string).  The       *)
(* strings handed to the constructors are not looked into here: the        *)
(* constructors ColoredRect::new, RoundedRect::new, Text::new and          *)
(* Image::new return an object for every string.  An error is the message  *)
(* it was made from with serde::de::Error::custom.                         *)
(***************************************************************************)

JMissing == [kind |-> "missing", s |-> ""]

JString(s) == [kind |-> "string", s |-> s]

JNumber == [kind |-> "number", s |-> ""]

JArray == [kind |-> "array", s |-> ""]

\* HashMap::get.
JsonGet(obj, key) == IF key \in DOMAIN obj THEN obj[key] ELSE JMissing

JsonOk(v) == [ok |-> TRUE, v |-> v, err |-> ""]

JsonErr(e) == [ok |-> FALSE, v |-> JMissing, err |-> e]

RECURSIVE FirstPresent(_, _)
\* val = val.or(map.get(key)) over the keys in order.
FirstPresent(obj, keys) ==
    IF keys = <<>> THEN JMissing
    ELSE IF JsonGet(obj, keys[1]).kind # "missing" THEN JsonGet(obj, keys[1])
    ELSE FirstPresent(obj, Tail(keys))

\* The Debug form of a list of strings: ["a", "b"].
DebugList(keys) ==
    <<"[">> \o JoinWith([k \in 1..Len(keys) |-> <<"\"", keys[k], "\"">>], ", ")
        \o <<"]">>

\* get_value_alternates: the value of the first key the object has.
get_value_alternates(obj, keys) ==
    IF FirstPresent(obj, keys).kind = "missing"
    THEN JsonErr(<<"required parameter unspecified; possible keys: ">>
                     \o DebugList(keys))
    ELSE JsonOk(FirstPresent(obj, keys))

\* The test of the key "type" every from_json starts with.
TypeCheck(obj, name) ==
    IF JsonGet(obj, "type").kind = "missing" THEN <<"no type given">>
    ELSE IF JsonGet(obj, "type") # JString(name) THEN <<"wrong type">>
    ELSE <<>>

\* One field of a from_json: its keys, the kind its value must have and
\* the message when it has another one.
Field(keys, kind, msg) == [keys |-> keys, kind |-> kind, msg |-> msg]

RECURSIVE CheckFields(_, _)
\* The fields of a from_json in order: the first one that is missing or of
\* the wrong kind ends the constructor with its message; <<>> when all are
\* there.
CheckFields(obj, fields) ==
    IF fields = <<>> THEN <<>>
    ELSE IF ~get_value_alternates(obj, fields[1].keys).ok
         THEN get_value_alternates(obj, fields[1].keys).err
    ELSE IF get_value_alternates(obj, fields[1].keys).v.kind # fields[1].kind
         THEN <<fields[1].msg>>
    ELSE CheckFields(obj, Tail(fields))

F_Pos == Field(<<"pos", "position">>, "string", "position needs to be a string")

F_Size == Field(<<"size">>, "string", "size needs to be a string")

F_Col == Field(<<"col", "color">>, "string", "color needs to be a string")

F_Align ==
    Field(<<"align", "alignment">>, "string", "alignment needs to be a string")

ColoredRectFields == <<F_Pos, F_Size, F_Col, F_Align>>

RoundedRectFields ==
    <<F_Pos, F_Size, F_Col,
      Field(<<"corners", "corner_rounding", "rounding", "radius",
              "corner_radius">>, "string",
            "corner radius needs to be a string"),
      F_Align>>

TextFields ==
    <<F_Pos,
      Field(<<"width", "wrapping_width">>, "string",
            "wrapping width needs to be a string"),
      Field(<<"size", "height", "text_size", "text_height">>, "string",
            "text height needs to be a string"),
      F_Col,
      Field(<<"font", "base_font">>, "string",
            "font radius needs to be a string"),
      F_Align,
      Field(<<"text">>, "array", "text needs to be an array of strings")>>

ImageFields ==
    <<F_Pos, F_Size,
      Field(<<"path", "file", "file_path">>, "string",
            "file path needs to be a string"),
      F_Align>>

\* A from_json: the test of the type, then the fields.
FromJson(obj, name, fields) ==
    IF TypeCheck(obj, name) # <<>> THEN TypeCheck(obj, name)
    ELSE CheckFields(obj, fields)

\* Text::from_json needs the list of fonts as well (FONTS.get()).
TextFromJson(obj, fonts) ==
    IF FromJson(obj, "Text", TextFields) # <<>>
    THEN FromJson(obj, "Text", TextFields)
    ELSE IF ~fonts THEN <<"error getting font-list">>
    ELSE <<>>

\* The constructors in the order they are tried.
RENDERABLE_FUNCS == <<"ColoredRect", "RoundedRect", "Text", "Image">>

\* The message a constructor fails with on the object, <<>> when it builds
\* the object.
RenderableFunc(name, obj, fonts) ==
    IF name = "ColoredRect" THEN FromJson(obj, "ColoredRect", ColoredRectFields)
    ELSE IF name = "RoundedRect"
         THEN FromJson(obj, "RoundedRect", RoundedRectFields)
    ELSE IF name = "Text" THEN TextFromJson(obj, fonts)
    ELSE FromJson(obj, "Image", ImageFields)

RECURSIVE TryFuncs(_, _, _, _, _)
\* The loop over RENDERABLE_FUNCS: result starts as Err(""); as long as it
\* is an error, the error is pushed onto errors and the next constructor
\* makes the new result.
TryFuncs(i, result, errors, obj, fonts) ==
    IF i > Len(RENDERABLE_FUNCS) THEN [result |-> result, errors |-> errors]
    ELSE IF result.ok THEN TryFuncs(i + 1, result, errors, obj, fonts)
    ELSE With(RenderableFunc(RENDERABLE_FUNCS[i], obj, fonts), LAMBDA e :
             TryFuncs(i + 1,
                      IF e = <<>> THEN [ok |-> TRUE, type |-> RENDERABLE_FUNCS[i],
                                        err |-> <<>>]
                      ELSE [ok |-> FALSE, type |-> "", err |-> e],
                      Append(errors, result.err), obj, fonts))

\* The Debug form of errors, a list of strings, each error one piece.
DebugErrors(errors) ==
    <<"[">> \o JoinWith([k \in 1..Len(errors) |-> <<"\"">> \o errors[k] \o <<"\"">>],
                        ", ")
        \o <<"]">>

ContentOk(type) == [ok |-> TRUE, type |-> type, msg |-> <<>>]

ContentErr(msg) == [ok |-> FALSE, type |-> "", msg |-> msg]

\* The body of the loop over the array: the constructors, the z-index,
\* then the object or the error.
ContentEntry(obj, fonts) ==
    With(TryFuncs(1, [ok |-> FALSE, type |-> "", err |-> <<>>], <<>>, obj, fonts),
         LAMBDA tried :
    With(get_value_alternates(obj, <<"z_index", "z-index", "z">>), LAMBDA zv :
        IF zv.ok /\ zv.v.kind # "number" THEN ContentErr(<<"invalid z-index">>)
        ELSE IF tried.result.ok THEN ContentOk(tried.result.type)
        ELSE ContentErr(<<"invalid contents of renderable object (">>
                            \o DebugErrors(tried.errors) \o <<")">>)))

TypeValues ==
    {JMissing, JString("ColoredRect"), JString("RoundedRect"), JString("Text"),
     JString("Image"), JString("Circle")}

StringOrNot == {JMissing, JString("")}

StringOrNumber == {JMissing, JString(""), JNumber}

\* The raw objects: every key is missing, a string or, for some, a value
\* of another kind.
RawContents ==
    [type : TypeValues, pos : StringOrNumber, position : StringOrNot,
     size : StringOrNumber, col : StringOrNot, align : StringOrNot,
     corners : StringOrNot, width : StringOrNot, font : StringOrNot,
     text : {JMissing, JString(""), JArray}, path : StringOrNot,
     z : {JMissing, JNumber, JString("")}]

ContentInit ==
    /\ renderable_json \in RawContents
    /\ fonts_set \in BOOLEAN
    /\ content = <<>>

\* SlideData::from_json_data on an array "content" of the one object.
FromJsonData ==
    /\ content = <<>>
    /\ content' = ContentEntry(renderable_json, fonts_set)
    /\ UNCHANGED <<renderable_json, fonts_set, exceptContent>>

\* Every constructor fails on the object.
AllFail ==
    \A k \in 1..Len(RENDERABLE_FUNCS) :
        RenderableFunc(RENDERABLE_FUNCS[k], renderable_json, fonts_set) # <<>>

\* The z-index of the object is a number, or it has none.
ZIndexValid ==
    JsonGet(renderable_json, "z").kind \in {"missing", "number"}

\* C18: when every constructor fails on an object (whose z-index is valid),
\* the error reported for the object holds the failure message of each of
\* the four constructors.
C18_AllFailuresReported ==
    content # <<>> /\ AllFail /\ ZIndexValid =>
        /\ ~content.ok
        /\ \A k \in 1..Len(RENDERABLE_FUNCS) :
               \A j \in 1..Len(RenderableFunc(RENDERABLE_FUNCS[k],
                                              renderable_json, fonts_set)) :
                   Contains(content.msg,
                            RenderableFunc(RENDERABLE_FUNCS[k],
                                           renderable_json, fonts_set)[j])

(***************************************************************************)
(* Text::new with the base font and the text alignment as arguments        *)
(***************************************************************************)

\* The font names Text::new is called with: two of the registry and one
\* that is not in it.
BaseFonts == FontList \cup {<<"x">>}

TextAlignStrings == {"LEFT", "CENTERED", "RIGHT", "JUSTIFY"}

\* format!("TOP_{}", text_alignment)
TopOf(text_alignment) ==
    CASE text_alignment = "LEFT" -> "TOP_LEFT"
      [] text_alignment = "CENTERED" -> "TOP_CENTERED"
      [] text_alignment = "RIGHT" -> "TOP_RIGHT"
      [] OTHER -> "TOP_JUSTIFY"

RECURSIVE ParseLines(_, _)
\* The loop of Text::new over the lines.  Text::parse builds its first run
\* with font_list.get(base_font).unwrap(), a panic when the registry does
\* not hold the name; an Err of Text::parse is returned with ?.
ParseLines(lines, base_font) ==
    IF lines = <<>> THEN "ok"
    ELSE IF base_font \notin FontList THEN "panic"
    ELSE IF ~Parse(lines[1], BaseSize, base_font, FALSE, FALSE, BaseColor).ok
         THEN "err"
    ELSE ParseLines(Tail(lines), base_font)

\* Text::new: the lines are parsed, then the text alignment is converted.
TextNewResult(lines, base_font, text_alignment) ==
    IF ParseLines(lines, base_font) # "ok" THEN ParseLines(lines, base_font)
    ELSE IF ~AlignmentTryFrom(TopOf(text_alignment)).ok THEN "err"
    ELSE "ok"

TextNewInit ==
    /\ new_args \in [text : TextSources \cup {<<>>}, base_font : BaseFonts,
                     text_alignment : TextAlignStrings]
    /\ new_result = ""

\* A call of Text::new.
TextNewWithFont ==
    /\ new_result = ""
    /\ new_result' = TextNewResult(new_args.text, new_args.base_font,
                                   new_args.text_alignment)
    /\ UNCHANGED <<new_args, exceptNew>>

\* A line of the text has a font override.
HasFontOverride(lines, font) ==
    \E k \in 1..Len(lines) :
        \E p \in 1..Len(lines[k]) - Len(font) - 1 :
            /\ lines[k][p] = "_"
            /\ SubSeq(lines[k], p + 1, p + Len(font)) = font
            /\ lines[k][p + Len(font) + 1] = "_"

\* C26: Text::new returns every failure as an Err and never aborts: a font
\* name the registry does not hold gives an Err when it is the base font of
\* the object and when it is written in a font override of a line.
C26_FontErrors ==
    new_result # "" =>
        /\ new_result \in {"ok", "err"}
        /\ new_args.base_font \notin FontList /\ new_args.text # <<>>
              => new_result = "err"
        /\ new_args.base_font \in FontList
              /\ HasFontOverride(new_args.text, <<"x">>)
              => new_result = "err"

(***************************************************************************)
(* The viewer: Application::render and Application::input                  *)
(*                                                                         *)
(* The monotonic clock (Instant::now()) counts ticks.  Application::render *)
(* reads it twice, for now and in last_frame.elapsed(); it may advance in  *)
(* between.                                                                *)
(***************************************************************************)

\* How far the clock runs and how many button events are handled.
MaxClock == 3

MaxEvents == 3

LeftKeys == {"A", "Left"}

RightKeys == {"D", "Right"}

Buttons == LeftKeys \cup RightKeys \cup {"F11", "Space"}

ButtonStates == {"Press", "Release"}

\* A Press that is taken whatever the flag of its group.
PressAcceptedAlways(flag) == TRUE

\* The patterns (false, _, _), (_, false, _) and (_, _, false) of the Press
\* arms: the flag of the group is clear.
PressAccepted(flag) == ~flag

\* AppData::create: the presentation of the document's slides, time 0.0,
\* last_frame = Instant::now() and no key held.
AppInit ==
    /\ \E n \in 0..MaxSlides :
         slides = [k \in 1..n |-> IF k % 2 = 1 THEN 1 ELSE 2]
    /\ current_slide = 0
    /\ shown = 0
    /\ pres_pc = "ok"
    /\ call = ""
    /\ from_slide = 0
    /\ clock = 0
    /\ time = 0
    /\ last_frame = 0
    /\ last_press = <<FALSE, FALSE, FALSE>>
    /\ switched_at = 0
    /\ frame_time = <<>>
    /\ events = 0
    /\ last_event = <<>>
    /\ calls = [previous_slide |-> 0, next_slide |-> 0]
    /\ releases = [left |-> 0, right |-> 0]

\* Time passes.
Tick ==
    /\ pres_pc = "ok"
    /\ clock < MaxClock
    /\ clock' = clock + 1
    /\ UNCHANGED <<time, last_frame, last_press, switched_at, frame_time, events,
                   last_event, calls, releases, presVars, exceptApp>>

\* Application::render: dt is what last_frame.elapsed() gives, last_frame
\* becomes the Instant read before it, and the presentation is rendered
\* with the new time.
AppRender ==
    /\ pres_pc = "ok"
    /\ \E d \in {0, 1} :
         /\ clock + d <= MaxClock
         /\ clock' = clock + d
         /\ time' = time + (clock + d - last_frame)
         /\ last_frame' = clock
         /\ frame_time' = [time |-> time + (clock + d - last_frame),
                           at |-> clock + d, since |-> switched_at]
    /\ call' = "render"
    /\ from_slide' = current_slide
    /\ IF current_slide < Len(slides)
       THEN shown' = slides[current_slide + 1] /\ UNCHANGED current_slide
       ELSE current_slide' = 0 /\ UNCHANGED shown
    /\ UNCHANGED <<slides, pres_pc, last_press, switched_at, events, last_event,
                   calls, releases, exceptApp>>

\* The arm of a Press of A or Left that is taken: previous_slide, time = 0.0
\* and the flag.
InputPrevious ==
    /\ current_slide' = previous_slide(current_slide, Len(slides))
    /\ call' = "previous_slide"
    /\ from_slide' = current_slide
    /\ time' = 0
    /\ switched_at' = clock
    /\ last_press' = [last_press EXCEPT ![1] = TRUE]
    /\ calls' = [calls EXCEPT !.previous_slide = @ + 1]
    /\ UNCHANGED <<slides, shown, pres_pc>>

\* The arm of a Press of D or Right that is taken: next_slide (which panics
\* on an empty presentation and on the overflow of current_slide + 1 in a
\* build with overflow checks), time = 0.0 and the flag.
InputNext ==
    /\ call' = "next_slide"
    /\ from_slide' = current_slide
    /\ calls' = [calls EXCEPT !.next_slide = @ + 1]
    /\ \/ /\ Len(slides) = 0 \/ current_slide = UsizeMax
          /\ pres_pc' = "panic"
          /\ UNCHANGED <<current_slide, time, switched_at, last_press>>
       \/ /\ Len(slides) # 0
          /\ current_slide' = ((current_slide + 1) % Pow2(UsizeBits)) % Len(slides)
          /\ time' = 0
          /\ switched_at' = clock
          /\ last_press' = [last_press EXCEPT ![2] = TRUE]
          /\ UNCHANGED pres_pc
    /\ UNCHANGED <<slides, shown>>

\* An arm that only sets or clears the flag of a group, and the arm _ => {}
\* (flag and value as they are).
InputFlag(group, value) ==
    /\ last_press' = [last_press EXCEPT ![group] = value]
    /\ UNCHANGED <<presVars, time, switched_at, calls>>

\* Application::input for a button event; it returns true for the Press of
\* F11 that is taken.
AppInput ==
    /\ pres_pc = "ok"
    /\ events < MaxEvents
    /\ events' = events + 1
    /\ \E button \in Buttons, st \in ButtonStates :
         /\ last_event' =
                [button |-> button, state |-> st,
                 returned |-> button = "F11" /\ st = "Press"
                                /\ PressAccepted(last_press[3])]
         /\ releases' =
                IF st = "Release" /\ button \in LeftKeys
                THEN [releases EXCEPT !.left = @ + 1]
                ELSE IF st = "Release" /\ button \in RightKeys
                THEN [releases EXCEPT !.right = @ + 1]
                ELSE releases
         /\ IF button \in LeftKeys /\ st = "Press" /\ PressAccepted(last_press[1])
            THEN InputPrevious
            ELSE IF button \in LeftKeys /\ st = "Release" /\ last_press[1]
            THEN InputFlag(1, FALSE)
            ELSE IF button \in RightKeys /\ st = "Press"
                      /\ PressAccepted(last_press[2])
            THEN InputNext
            ELSE IF button \in RightKeys /\ st = "Release" /\ last_press[2]
            THEN InputFlag(2, FALSE)
            ELSE IF button = "F11" /\ st = "Press" /\ PressAccepted(last_press[3])
            THEN InputFlag(3, TRUE)
            ELSE IF button = "F11" /\ st = "Release" /\ last_press[3]
            THEN InputFlag(3, FALSE)
            ELSE InputFlag(1, last_press[1])
    /\ UNCHANGED <<clock, last_frame, frame_time, exceptApp>>

\* C25: the time handed to Presentation::render in a frame is the time that
\* has passed since the current slide was switched to (since the start when
\* there was no switch): a key press that changes the slide sets it to 0 and
\* only time after the switch is added.
C25_TimeSinceSwitch ==
    frame_time # <<>> => frame_time.time = frame_time.at - frame_time.since

\* C27: a Press of A/Left (of D/Right) calls previous_slide (next_slide)
\* only when the flag of the group is clear, and sets the flag; while the
\* flag is set a Press of the group changes neither the slide nor the time;
\* only a Release of the group clears the flag.  So there are never more
\* calls of previous_slide (next_slide) than 1 + the Release events of the
\* group.
C27_Debounce ==
    /\ [](/\ calls.previous_slide <= 1 + releases.left
          /\ calls.next_slide <= 1 + releases.right)
    /\ [][events' = events + 1 =>
            /\ \A g \in {1, 2} :
                 LET keys == IF g = 1 THEN LeftKeys ELSE RightKeys IN
                 /\ last_event'.button \in keys /\ last_event'.state = "Press"
                      /\ last_press[g]
                      => UNCHANGED <<current_slide, time, last_press, calls>>
                 /\ last_event'.button \in keys /\ last_event'.state = "Press"
                      /\ ~last_press[g] /\ pres_pc' = "ok"
                      => last_press'[g] /\ time' = 0
                 /\ last_press[g] /\ ~last_press'[g]
                      => last_event'.button \in keys
                           /\ last_event'.state = "Release"
            /\ calls' # calls =>
                 last_event'.state = "Press"
                   /\ last_event'.button \in LeftKeys \cup RightKeys]_vars

\* A key of the left group was pressed, released and pressed again:
\* previous_slide was called twice, and the key is held.
C27_Witness ==
    /\ events = 3
    /\ calls.previous_slide = 2
    /\ releases.left = 1
    /\ last_press[1]
    /\ time = 0

(***************************************************************************)
(* Specifications                                                          *)
(***************************************************************************)

SlideIdle ==
    /\ objects = <<>>
    /\ inserted = <<>>
    /\ rendered = <<>>

ParseIdle ==
    /\ line = <<>>
    /\ vec = <<>>
    /\ stage = 0
    /\ status = "idle"

TextIdle ==
    /\ src = <<>>
    /\ view = <<>>
    /\ text = <<>>
    /\ pc = "idle"
    /\ idx = 0
    /\ line_widths = <<>>
    /\ line_heights = <<>>
    /\ curr_width = 0
    /\ curr_max_height = 0
    /\ height = 0
    /\ starting_pos = <<0, 0>>
    /\ current_pos = <<0, 0>>
    /\ current_line = 0
    /\ draws = <<>>
    /\ breaks1 = <<>>
    /\ breaks2 = <<>>

PadIdle ==
    /\ padIn = <<>>
    /\ padOut = <<>>

BoxIdle ==
    /\ shape = <<>>
    /\ drawn = <<>>

LoadIdle ==
    /\ raw = <<>>
    /\ loaded = <<>>
    /\ evald = <<>>

PresIdle ==
    /\ slides = <<>>
    /\ current_slide = 0
    /\ shown = 0
    /\ pres_pc = "idle"
    /\ call = ""
    /\ from_slide = 0

ContentIdle ==
    /\ renderable_json = <<>>
    /\ fonts_set = FALSE
    /\ content = <<>>

AppIdle ==
    /\ clock = 0
    /\ time = 0
    /\ last_frame = 0
    /\ last_press = <<>>
    /\ switched_at = 0
    /\ frame_time = <<>>
    /\ events = 0
    /\ last_event = <<>>
    /\ calls = <<>>
    /\ releases = <<>>

NewIdle ==
    /\ new_args = <<>>
    /\ new_result = ""

ExtIdle == BoxIdle /\ LoadIdle /\ PresIdle /\ ContentIdle /\ AppIdle /\ NewIdle

\* A slide under construction and rendering.
InitSlide == SlideInit /\ ParseIdle /\ TextIdle /\ PadIdle /\ ExtIdle

NextSlide == Add \/ AddBoxed \/ Render

SpecSlide == InitSlide /\ [][NextSlide]_vars

\* One call of Text::parse, step by step.
InitParse == SlideIdle /\ ParseInit /\ TextIdle /\ PadIdle /\ ExtIdle

NextParse == MarkupStep \/ PlaceholderStep \/ TabStep \/ WrapStep \/ FilterStep

SpecParse == InitParse /\ [][NextParse]_vars

\* A Text object is built and rendered for one frame.
InitText == SlideIdle /\ ParseIdle /\ TextInit /\ PadIdle /\ ExtIdle

NextText ==
    \/ TextNewCall \/ RenderBegin
    \/ MeasureTab \/ MeasureNewLine \/ MeasureSpace \/ MeasureText
    \/ MeasurePlaceholder \/ MeasureEnd
    \/ DrawTab \/ DrawNewLine \/ DrawSpace \/ DrawText \/ DrawPlaceholder
    \/ DrawEnd

SpecText == InitText /\ [][NextText]_vars

\* Calls of Text::pad_num.
InitPad == SlideIdle /\ ParseIdle /\ TextIdle /\ PadInit /\ ExtIdle

NextPad == PadNumCall

SpecPad == InitPad /\ [][NextPad]_vars

\* A ColoredRect, RoundedRect or Image is rendered.
InitBox == SlideIdle /\ ParseIdle /\ TextIdle /\ PadIdle /\ BoxInit /\ LoadIdle
             /\ PresIdle /\ ContentIdle /\ AppIdle /\ NewIdle

NextBox == ColoredRectRender \/ RoundedRectRender \/ ImageRender

SpecBox == InitBox /\ [][NextBox]_vars

\* An object of the document is loaded and its position and size are
\* evaluated for frames.
InitLoad == SlideIdle /\ ParseIdle /\ TextIdle /\ PadIdle /\ BoxIdle /\ LoadInit
              /\ PresIdle /\ ContentIdle /\ AppIdle /\ NewIdle

NextLoad == ParseBaseProperties \/ EvaluateTuple

SpecLoad == InitLoad /\ [][NextLoad]_vars

\* A presentation is built, stepped through and rendered.
InitPresentation ==
    SlideIdle /\ ParseIdle /\ TextIdle /\ PadIdle /\ BoxIdle /\ LoadIdle
        /\ PresentationNew /\ ContentIdle /\ AppIdle /\ NewIdle

NextPresentation ==
    AddSlide \/ NextSlideCall \/ PreviousSlideCall \/ PresentationRender

SpecPresentation == InitPresentation /\ [][NextPresentation]_vars

\* An entry of the array "content" of a slide is loaded.
InitContent ==
    SlideIdle /\ ParseIdle /\ TextIdle /\ PadIdle /\ BoxIdle /\ LoadIdle
        /\ PresIdle /\ ContentInit /\ AppIdle /\ NewIdle

NextContent == FromJsonData

SpecContent == InitContent /\ [][NextContent]_vars

\* The viewer runs: frames are rendered and button events handled.
InitApp ==
    SlideIdle /\ ParseIdle /\ TextIdle /\ PadIdle /\ BoxIdle /\ LoadIdle
        /\ ContentIdle /\ AppInit /\ NewIdle

NextApp == Tick \/ AppRender \/ AppInput

SpecApp == InitApp /\ [][NextApp]_vars

\* Text::new is called with a base font and a text alignment.
InitNew ==
    SlideIdle /\ ParseIdle /\ TextIdle /\ PadIdle /\ BoxIdle /\ LoadIdle
        /\ PresIdle /\ ContentIdle /\ AppIdle /\ TextNewInit

NextNew == TextNewWithFont

SpecNew == InitNew /\ [][NextNew]_vars

====
